---- MODULE Spec2Model ----
(***************************************************************************)
(* Model of the document catalog client.                                   *)
(*                                                                         *)
(* DocumentService (src/src/services/DocumentService.ts): remote fetch,    *)
(* merge with the user-created rows of the localStorage cache, fallback to *)
(* the cache on failure, and the add/remove cache mutations.               *)
(*                                                                         *)
(* NotificationsService (src/unnamed/part_007): the WebSocket connections  *)
(* of connect(), the Set of listeners, the broadcast of inbound frames     *)
(* and disconnect().  NotificationsController with its toast and its       *)
(* notification log: the listener that formats and forwards each event.    *)
(*                                                                         *)
(* An in-memory Document is a record with the field ID and the optional    *)
(* field isUserCreated.  The persisted text is the JSON serialisation: a   *)
(* sequence of objects, each a token sequence <<"ID", id>> optionally      *)
(* followed by <<"isUserCreated", "true" | "false">>.                      *)
(***************************************************************************)
EXTENDS Integers, Sequences, FiniteSets, TLC

\* ---------------------------------------------------------------- bounds
MaxCalls == 2
MaxRemote == 1
MaxCache == 2

RemoteIDs == {"a", "b"}
UserIDs == {"a", "u"}

\* ------------------------------------------------------------- documents
NoDoc == [ID |-> ""]

HasFlag(doc) == "isUserCreated" \in DOMAIN doc

\* JavaScript truthiness of doc.isUserCreated (undefined is falsy)
Truthy(doc) == HasFlag(doc) /\ doc.isUserCreated

\* document.isUserCreated = true
Stamp(doc) == [ID |-> doc.ID, isUserCreated |-> TRUE]

\* JSON.stringify of one Document: an undefined property is omitted
StringifyDoc(doc) ==
  IF HasFlag(doc)
    THEN <<"ID", doc.ID, "isUserCreated", IF doc.isUserCreated THEN "true" ELSE "false">>
    ELSE <<"ID", doc.ID>>

\* seeded fault: the parsed object loses its isUserCreated property
ParseDoc_DropsFlag(obj) == [ID |-> obj[2]]

\* JSON.parse of one object
ParseDoc(obj) ==
  IF Len(obj) = 4
    THEN [ID |-> obj[2], isUserCreated |-> (obj[4] = "true")]
    ELSE [ID |-> obj[2]]

Stringify(docs) == [i \in 1..Len(docs) |-> StringifyDoc(docs[i])]

Parse(items) == [i \in 1..Len(items) |-> ParseDoc(items[i])]

\* ----------------------------------------------------------- localStorage
\* The value under CACHE_KEY: absent (getItem gives null), the empty string,
\* text that is not JSON, or the JSON text of an array.
Absent == [kind |-> "absent", items |-> <<>>]
EmptyText == [kind |-> "empty", items |-> <<>>]
Malformed == [kind |-> "malformed", items |-> <<>>]
ArrayText(items) == [kind |-> "array", items |-> items]

WarnRetrieve == <<"warn", "Failed to retrieve documents from cache">>
WarnSave == <<"warn", "Failed to save documents to cache">>
WarnAdd == <<"warn", "Failed to add document to cache">>
WarnRemove == <<"warn", "Failed to remove document from cache">>
WarnOffline == <<"warn", "Using cached documents (offline mode)">>
ErrorLog(error) == <<"error", error>>

\* seeded fault: unparseable text is read as an empty list instead of null
GetFromCache_MalformedIsEmpty(st) ==
  CASE st.kind = "array" -> [isNull |-> FALSE, docs |-> Parse(st.items), logs |-> <<>>]
    [] st.kind = "malformed" -> [isNull |-> FALSE, docs |-> <<>>, logs |-> <<WarnRetrieve>>]
    [] OTHER -> [isNull |-> TRUE, docs |-> <<>>, logs |-> <<>>]

\* seeded fault: an empty persisted list is read as no cache
GetFromCache_EmptyListIsNull(st) ==
  CASE st.kind = "array" /\ st.items # <<>> ->
         [isNull |-> FALSE, docs |-> Parse(st.items), logs |-> <<>>]
    [] st.kind = "malformed" -> [isNull |-> TRUE, docs |-> <<>>, logs |-> <<WarnRetrieve>>]
    [] OTHER -> [isNull |-> TRUE, docs |-> <<>>, logs |-> <<>>]

\* getFromCache(): null when the key is absent, empty or unparseable
GetFromCache(st) ==
  CASE st.kind = "array" -> [isNull |-> FALSE, docs |-> Parse(st.items), logs |-> <<>>]
    [] st.kind = "malformed" -> [isNull |-> TRUE, docs |-> <<>>, logs |-> <<WarnRetrieve>>]
    [] OTHER -> [isNull |-> TRUE, docs |-> <<>>, logs |-> <<>>]

\* seeded fault: a rejected write removes the key
SaveToCache_ClearsOnFailure(st, docs, accept) ==
  IF accept
    THEN [storage |-> ArrayText(Stringify(docs)), logs |-> <<>>, threw |-> FALSE]
    ELSE [storage |-> Absent, logs |-> <<WarnSave>>, threw |-> FALSE]

\* seeded fault: saveToCache without its try/catch
SaveToCache_Throws(st, docs, accept) ==
  IF accept
    THEN [storage |-> ArrayText(Stringify(docs)), logs |-> <<>>, threw |-> FALSE]
    ELSE [storage |-> st, logs |-> <<>>, threw |-> TRUE]

\* saveToCache(documents): accept = FALSE is a setItem that throws
SaveToCache(st, docs, accept) ==
  IF accept
    THEN [storage |-> ArrayText(Stringify(docs)), logs |-> <<>>, threw |-> FALSE]
    ELSE [storage |-> st, logs |-> <<WarnSave>>, threw |-> FALSE]

\* this.getFromCache() || []
CachedOrEmpty(g) == IF g.isNull THEN <<>> ELSE g.docs

\* seeded fault: the filter keeps every cached document
FilterUserCreated_KeepsAll(docs) == docs

\* cached.filter((doc) => doc.isUserCreated)
RECURSIVE FilterUserCreated(_)
FilterUserCreated(docs) ==
  IF docs = <<>> THEN <<>>
  ELSE IF Truthy(Head(docs)) THEN <<Head(docs)>> \o FilterUserCreated(Tail(docs))
       ELSE FilterUserCreated(Tail(docs))

\* seeded fault: the whole cache is taken as user-created
GetUserCreatedDocuments_WholeCache(st) ==
  LET g == GetFromCache(st)
  IN [docs |-> CachedOrEmpty(g), logs |-> g.logs]

\* getUserCreatedDocuments()
GetUserCreatedDocuments(st) ==
  LET g == GetFromCache(st)
  IN [docs |-> FilterUserCreated(CachedOrEmpty(g)), logs |-> g.logs]

\* seeded fault: the merge drops the user-created documents
MergeDocuments_RemoteOnly(userCreated, apiFetched) == apiFetched

\* seeded fault: a remote document whose ID a user-created one has is dropped
MergeDocuments_DedupById(userCreated, apiFetched) ==
  userCreated \o
    SelectSeq(apiFetched,
              LAMBDA d : \A k \in 1..Len(userCreated) : userCreated[k].ID # d.ID)

\* [...userCreatedDocuments, ...apiFetchedDocuments]
MergeDocuments(userCreated, apiFetched) == userCreated \o apiFetched

\* seeded fault: only the first matching entry is removed
FilterOutId_FirstOnly(docs, documentId) ==
  IF \E i \in 1..Len(docs) : docs[i].ID = documentId
    THEN LET k == CHOOSE i \in 1..Len(docs) :
                    /\ docs[i].ID = documentId
                    /\ \A j \in 1..(i - 1) : docs[j].ID # documentId
         IN SubSeq(docs, 1, k - 1) \o SubSeq(docs, k + 1, Len(docs))
    ELSE docs

\* cached.filter((doc) => doc.ID !== documentId)
RECURSIVE FilterOutId(_, _)
FilterOutId(docs, documentId) ==
  IF docs = <<>> THEN <<>>
  ELSE IF Head(docs).ID # documentId THEN <<Head(docs)>> \o FilterOutId(Tail(docs), documentId)
       ELSE FilterOutId(Tail(docs), documentId)

\* seeded fault: the fallback does not set usedCache
GetDocumentsCatch_KeepsFlag(st, uc, error) ==
  LET g == GetFromCache(st)
  IN IF ~g.isNull
       THEN [storage |-> st, usedCache |-> uc, outcome |-> "returned", path |-> "cache",
             result |-> g.docs, error |-> "none",
             logs |-> <<ErrorLog(error)>> \o g.logs \o <<WarnOffline>>,
             setItemCalled |-> FALSE, setItemArg |-> <<>>, arg |-> NoDoc]
       ELSE [storage |-> st, usedCache |-> uc, outcome |-> "rejected", path |-> "rethrow",
             result |-> <<>>, error |-> error,
             logs |-> <<ErrorLog(error)>> \o g.logs,
             setItemCalled |-> FALSE, setItemArg |-> <<>>, arg |-> NoDoc]

\* The catch branch of getDocuments
GetDocumentsCatch(st, uc, error) ==
  LET g == GetFromCache(st)
  IN IF ~g.isNull
       THEN [storage |-> st, usedCache |-> TRUE, outcome |-> "returned", path |-> "cache",
             result |-> g.docs, error |-> "none",
             logs |-> <<ErrorLog(error)>> \o g.logs \o <<WarnOffline>>,
             setItemCalled |-> FALSE, setItemArg |-> <<>>, arg |-> NoDoc]
       ELSE [storage |-> st, usedCache |-> uc, outcome |-> "rejected", path |-> "rethrow",
             result |-> <<>>, error |-> error,
             logs |-> <<ErrorLog(error)>> \o g.logs,
             setItemCalled |-> FALSE, setItemArg |-> <<>>, arg |-> NoDoc]

\* seeded fault: a successful fetch does not reset usedCache
GetDocumentsMerge_KeepsFlag(st, uc, apiFetched, accept) ==
  LET u == GetUserCreatedDocuments(st)
      merged == MergeDocuments(u.docs, apiFetched)
      s == SaveToCache(st, merged, accept)
  IN [storage |-> s.storage, usedCache |-> uc, outcome |-> "returned", path |-> "merge",
      result |-> merged, error |-> "none",
      logs |-> u.logs \o s.logs,
      setItemCalled |-> TRUE, setItemArg |-> Stringify(merged), arg |-> NoDoc]

\* The try block of getDocuments after response.json() has resolved
GetDocumentsMerge(st, uc, apiFetched, accept) ==
  LET u == GetUserCreatedDocuments(st)
      merged == MergeDocuments(u.docs, apiFetched)
      s == SaveToCache(st, merged, accept)
  IN IF s.threw
       THEN LET c == GetDocumentsCatch(s.storage, uc, "storage")
            IN [c EXCEPT !.logs = u.logs \o s.logs \o @,
                         !.setItemCalled = TRUE,
                         !.setItemArg = Stringify(merged)]
       ELSE [storage |-> s.storage, usedCache |-> FALSE, outcome |-> "returned", path |-> "merge",
             result |-> merged, error |-> "none",
             logs |-> u.logs \o s.logs,
             setItemCalled |-> TRUE, setItemArg |-> Stringify(merged), arg |-> NoDoc]

\* seeded fault: the document is put in front of the cached list
AddToCacheEffect_Prepends(st, uc, doc, accept) ==
  LET stamped == Stamp(doc)
      g == GetFromCache(st)
      cached == <<stamped>> \o CachedOrEmpty(g)
      s == SaveToCache(st, cached, accept)
  IN [storage |-> s.storage, usedCache |-> uc, outcome |-> "returned", path |-> "sync",
      result |-> <<>>, error |-> "none",
      logs |-> g.logs \o s.logs \o (IF s.threw THEN <<WarnAdd>> ELSE <<>>),
      setItemCalled |-> TRUE, setItemArg |-> Stringify(cached), arg |-> stamped]

\* addToCache(document)
AddToCacheEffect(st, uc, doc, accept) ==
  LET stamped == Stamp(doc)
      g == GetFromCache(st)
      cached == Append(CachedOrEmpty(g), stamped)
      s == SaveToCache(st, cached, accept)
  IN [storage |-> s.storage, usedCache |-> uc, outcome |-> "returned", path |-> "sync",
      result |-> <<>>, error |-> "none",
      logs |-> g.logs \o s.logs \o (IF s.threw THEN <<WarnAdd>> ELSE <<>>),
      setItemCalled |-> TRUE, setItemArg |-> Stringify(cached), arg |-> stamped]

\* removeFromCache(documentId)
RemoveFromCacheEffect(st, uc, documentId, accept) ==
  LET g == GetFromCache(st)
      filtered == FilterOutId(CachedOrEmpty(g), documentId)
      s == SaveToCache(st, filtered, accept)
  IN [storage |-> s.storage, usedCache |-> uc, outcome |-> "returned", path |-> "sync",
      result |-> <<>>, error |-> "none",
      logs |-> g.logs \o s.logs \o (IF s.threw THEN <<WarnRemove>> ELSE <<>>),
      setItemCalled |-> TRUE, setItemArg |-> Stringify(filtered), arg |-> NoDoc]

\* ------------------------------------------------- NotificationsService
\* (src/unnamed/part_007): one WebSocket per connect() call, a Set of
\* listeners, and the de-registration closures subscribe() has returned.
MaxConnects == 2
MaxHandles == 2

Listeners == {"f", "g"}

\* event.data of an inbound frame: the JSON text of a Notification, written as
\* its tokens, or text that is not JSON
Frames ==
  { <<"UserName", "Ann", "DocumentTitle", "IPA">>,
    <<"{not json">> }

NoNotification == [UserName |-> "", DocumentTitle |-> ""]

\* JSON.parse(event.data): throws on text that is not JSON
ParseFrame(frame) ==
  IF Len(frame) = 4 /\ frame[1] = "UserName" /\ frame[3] = "DocumentTitle"
    THEN [ok |-> TRUE, value |-> [UserName |-> frame[2], DocumentTitle |-> frame[4]]]
    ELSE [ok |-> FALSE, value |-> NoNotification]

ErrorEntry(error) == <<"error", "NotificationsService", error>>
InfoDisconnected == <<"info", "NotificationsService", "WebSocket disconnected">>
InfoManual == <<"info", "NotificationsService", "WebSocket disconnected manually">>

\* A connect() call: the socket it constructed (readyState "none" when the
\* constructor threw), the promise it returned, and which of the socket's
\* open, error and close events have been dispatched
NewSocket ==
  [readyState |-> "connecting", promise |-> "pending", error |-> "none",
   opened |-> FALSE, failed |-> FALSE, closeFired |-> FALSE]
NoSocket ==
  [readyState |-> "none", promise |-> "rejected", error |-> "constructor",
   opened |-> FALSE, failed |-> FALSE, closeFired |-> FALSE]

\* resolve() / reject(error): a settled promise stays as it is
Resolve(c) == IF c.promise = "pending" THEN [c EXCEPT !.promise = "resolved"] ELSE c
Reject(c, error) ==
  IF c.promise = "pending" THEN [c EXCEPT !.promise = "rejected", !.error = error] ELSE c

\* seeded fault: a Set that keeps a second entry for a listener it holds
SetAdd_AllowsDuplicates(set, x) == Append(set, x)

\* Set.prototype.add: insertion order, an element already present stays put
SetAdd(set, x) ==
  IF \E k \in 1..Len(set) : set[k] = x THEN set ELSE Append(set, x)

\* Set.prototype.delete
SetDelete(set, x) == SelectSeq(set, LAMBDA y : y # x)

\* seeded fault: connect() closes the socket it replaces
ConnectEffect_ClosesPrevious(w, cs, constructorThrows) ==
  LET closed == IF w # 0 /\ cs[w].readyState \in {"connecting", "open"}
                  THEN [cs EXCEPT ![w].readyState = "closing"] ELSE cs
  IN IF constructorThrows
       THEN [ws |-> w, conns |-> Append(closed, NoSocket),
             logs |-> <<ErrorEntry("constructor")>>, constructed |-> 1]
       ELSE [ws |-> Len(cs) + 1, conns |-> Append(closed, NewSocket),
             logs |-> <<>>, constructed |-> 1]

\* connect(): new WebSocket(url) and the four handlers, or the outer catch
ConnectEffect(w, cs, constructorThrows) ==
  IF constructorThrows
    THEN [ws |-> w, conns |-> Append(cs, NoSocket),
          logs |-> <<ErrorEntry("constructor")>>, constructed |-> 1]
    ELSE [ws |-> Len(cs) + 1, conns |-> Append(cs, NewSocket),
          logs |-> <<>>, constructed |-> 1]

\* ws.onopen
OnOpen(cs, i) ==
  [conns |-> [cs EXCEPT ![i] = Resolve(@)], logs |-> <<>>, constructed |-> 0]

\* seeded fault: onerror logs the error and leaves the promise pending
OnError_DoesNotReject(cs, i) ==
  [conns |-> cs, logs |-> <<ErrorEntry("error event")>>, constructed |-> 0]

\* ws.onerror
OnError(cs, i) ==
  [conns |-> [cs EXCEPT ![i] = Reject(@, "error event")],
   logs |-> <<ErrorEntry("error event")>>, constructed |-> 0]

\* seeded fault: onclose opens a new connection
OnClose_Reconnects(cs, i) ==
  [conns |-> Append(cs, NewSocket), logs |-> <<InfoDisconnected>>, constructed |-> 1]

\* ws.onclose
OnClose(cs, i) ==
  [conns |-> cs, logs |-> <<InfoDisconnected>>, constructed |-> 0]

\* seeded fault: forEach goes on after a listener has thrown
BroadcastNotification_SkipsThrower(cbs, throwers) ==
  [invoked |-> cbs, threw |-> \E k \in 1..Len(cbs) : cbs[k] \in throwers]

\* broadcastNotification(notification): forEach in insertion order; the first
\* listener that throws ends the pass
BroadcastNotification(cbs, throwers) ==
  IF \E k \in 1..Len(cbs) : cbs[k] \in throwers
    THEN LET first == CHOOSE k \in 1..Len(cbs) :
                        /\ cbs[k] \in throwers
                        /\ \A j \in 1..(k - 1) : cbs[j] \notin throwers
         IN [invoked |-> SubSeq(cbs, 1, first), threw |-> TRUE]
    ELSE [invoked |-> cbs, threw |-> FALSE]

\* seeded fault: a frame that does not parse is broadcast as an empty notification
OnMessage_BroadcastsUnparsed(cbs, frame, throwers) ==
  LET p == ParseFrame(frame)
      b == BroadcastNotification(cbs, throwers)
  IN [parsed |-> p.ok, delivered |-> p.value, invoked |-> b.invoked,
      caught |-> b.threw \/ ~p.ok, escaped |-> FALSE,
      logs |-> IF ~p.ok THEN <<ErrorEntry("SyntaxError")>>
               ELSE IF b.threw THEN <<ErrorEntry("listener error")>> ELSE <<>>]

\* ws.onmessage: parse and broadcast inside one try/catch
OnMessage(cbs, frame, throwers) ==
  LET p == ParseFrame(frame)
      b == BroadcastNotification(cbs, throwers)
  IN IF ~p.ok
       THEN [parsed |-> FALSE, delivered |-> NoNotification, invoked |-> <<>>,
             caught |-> TRUE, escaped |-> FALSE, logs |-> <<ErrorEntry("SyntaxError")>>]
       ELSE [parsed |-> TRUE, delivered |-> p.value, invoked |-> b.invoked,
             caught |-> b.threw, escaped |-> FALSE,
             logs |-> IF b.threw THEN <<ErrorEntry("listener error")>> ELSE <<>>]

\* WebSocket.close(): starts the closing handshake of a socket that is
\* connecting or open, does nothing to one that is closing or closed
CloseSocket(c) ==
  IF c.readyState \in {"connecting", "open"} THEN [c EXCEPT !.readyState = "closing"] ELSE c

\* seeded fault: disconnect() keeps the reference to the socket
DisconnectEffect_KeepsSocket(w, cs) ==
  IF w # 0
    THEN [ws |-> w, conns |-> [cs EXCEPT ![w] = CloseSocket(@)],
          closeCalled |-> TRUE, logs |-> <<InfoManual>>, callbacksCleared |-> FALSE]
    ELSE [ws |-> w, conns |-> cs, closeCalled |-> FALSE, logs |-> <<>>,
          callbacksCleared |-> FALSE]

\* seeded fault: disconnect() clears the registered listeners
DisconnectEffect_ClearsListeners(w, cs) ==
  IF w # 0
    THEN [ws |-> 0, conns |-> [cs EXCEPT ![w] = CloseSocket(@)],
          closeCalled |-> TRUE, logs |-> <<InfoManual>>, callbacksCleared |-> TRUE]
    ELSE [ws |-> w, conns |-> cs, closeCalled |-> FALSE, logs |-> <<>>,
          callbacksCleared |-> TRUE]

\* disconnect(): closes and forgets the socket; this.callbacks is not touched
DisconnectEffect(w, cs) ==
  IF w # 0
    THEN [ws |-> 0, conns |-> [cs EXCEPT ![w] = CloseSocket(@)],
          closeCalled |-> TRUE, logs |-> <<InfoManual>>, callbacksCleared |-> FALSE]
    ELSE [ws |-> w, conns |-> cs, closeCalled |-> FALSE, logs |-> <<>>,
          callbacksCleared |-> FALSE]


\* ------------------------------------------------ DocumentSortingService
\* (src/unnamed/part_005).  Strings the service takes apart (Title, Version)
\* are sequences of characters; CreatedAt is a date string that new Date()
\* parses to a time, counted here in minutes since the epoch.
MaxSortLen == 3

\* String.prototype.split("."): the segments between the dots
RECURSIVE SplitDot(_)
SplitDot(str) ==
  IF \E k \in 1..Len(str) : str[k] = "."
    THEN LET dot == CHOOSE k \in 1..Len(str) :
                      str[k] = "." /\ \A j \in 1..(k - 1) : str[j] # "."
         IN <<SubSeq(str, 1, dot - 1)>> \o SplitDot(SubSeq(str, dot + 1, Len(str)))
    ELSE <<str>>

Digits == {"0", "1", "2", "3", "4", "5", "6", "7", "8", "9"}

DigitValue(c) ==
  CASE c = "0" -> 0 [] c = "1" -> 1 [] c = "2" -> 2 [] c = "3" -> 3 [] c = "4" -> 4
    [] c = "5" -> 5 [] c = "6" -> 6 [] c = "7" -> 7 [] c = "8" -> 8 [] c = "9" -> 9

\* the value of the longest run of digits a string starts with
RECURSIVE LeadingDigits(_, _)
LeadingDigits(str, acc) ==
  IF str # <<>> /\ Head(str) \in Digits
    THEN LeadingDigits(Tail(str), 10 * acc + DigitValue(Head(str)))
    ELSE acc

\* parseInt(str, 10): an optional sign and the leading digits; NaN without a digit
ParseInt(str) ==
  LET signed == str # <<>> /\ Head(str) \in {"-", "+"}
      body == IF signed THEN Tail(str) ELSE str
      magnitude == LeadingDigits(body, 0)
  IN IF body # <<>> /\ Head(body) \in Digits
       THEN [nan |-> FALSE, value |-> IF signed /\ Head(str) = "-" THEN 0 - magnitude ELSE magnitude]
       ELSE [nan |-> TRUE, value |-> 0]

\* parseInt(num, 10) || 0
IntOrZero(str) == LET n == ParseInt(str) IN IF n.nan THEN 0 ELSE n.value

\* parseVersion(version)
ParseVersion(version) ==
  LET segments == SplitDot(version)
  IN [i \in 1..Len(segments) |-> IntOrZero(segments[i])]

\* seeded fault: a position a version does not have counts as -1, so that the
\* shorter of two versions comes first
PartOrZero_MissingIsBelow(parts, i) == IF i <= Len(parts) THEN parts[i] ELSE 0 - 1

\* versionA[i] || 0
PartOrZero(parts, i) == IF i <= Len(parts) THEN parts[i] ELSE 0

\* seeded fault: only the positions both versions have are compared
CompareVersions_CommonPrefix(a, b) ==
  LET versionA == ParseVersion(a)
      versionB == ParseVersion(b)
      n == IF Len(versionA) < Len(versionB) THEN Len(versionA) ELSE Len(versionB)
      differs == {i \in 1..n : versionA[i] # versionB[i]}
  IN IF differs = {} THEN 0
     ELSE LET i == CHOOSE k \in differs : \A j \in differs : k <= j
          IN versionA[i] - versionB[i]

\* compareVersions(a, b)
CompareVersions(a, b) ==
  LET versionA == ParseVersion(a)
      versionB == ParseVersion(b)
      n == IF Len(versionA) > Len(versionB) THEN Len(versionA) ELSE Len(versionB)
      differs == {i \in 1..n : PartOrZero(versionA, i) # PartOrZero(versionB, i)}
  IN IF differs = {} THEN 0
     ELSE LET i == CHOOSE k \in differs : \A j \in differs : k <= j
          IN PartOrZero(versionA, i) - PartOrZero(versionB, i)

\* the primary collation weight of a letter: its place in the alphabet,
\* whatever its case
BaseWeight(c) ==
  CASE c \in {"a", "A"} -> 1 [] c \in {"b", "B"} -> 2 [] c \in {"e", "E"} -> 5
    [] c \in {"h", "H"} -> 8 [] c \in {"l", "L"} -> 12 [] c \in {"p", "P"} -> 16
    [] c \in {"r", "R"} -> 18 [] c \in {"t", "T"} -> 20 [] c \in {"z", "Z"} -> 26

\* seeded fault: upper-case letters come before all lower-case letters
RECURSIVE LocaleCompareBase_CaseSensitive(_, _)
LocaleCompareBase_CaseSensitive(x, y) ==
  LET Weight(c) == IF c \in {"A", "B", "E", "H", "L", "P", "R", "T", "Z"}
                     THEN BaseWeight(c) ELSE 26 + BaseWeight(c)
  IN CASE x = <<>> /\ y = <<>> -> 0
       [] x = <<>> -> 0 - 1
       [] y = <<>> -> 1
       [] Weight(Head(x)) < Weight(Head(y)) -> 0 - 1
       [] Weight(Head(x)) > Weight(Head(y)) -> 1
       [] OTHER -> LocaleCompareBase_CaseSensitive(Tail(x), Tail(y))

\* x.localeCompare(y, undefined, { sensitivity: "base" })
RECURSIVE LocaleCompareBase(_, _)
LocaleCompareBase(x, y) ==
  CASE x = <<>> /\ y = <<>> -> 0
    [] x = <<>> -> 0 - 1
    [] y = <<>> -> 1
    [] BaseWeight(Head(x)) < BaseWeight(Head(y)) -> 0 - 1
    [] BaseWeight(Head(x)) > BaseWeight(Head(y)) -> 1
    [] OTHER -> LocaleCompareBase(Tail(x), Tail(y))

\* new Date(createdAt).getTime(), in minutes
GetTime(createdAt) ==
  CASE createdAt = "2024-01-01T00:59:00+01:00" -> 28401119
    [] createdAt = "2024-01-01T10:00:00Z" -> 28401720
    [] createdAt = "2024-01-01T10:00:00.000Z" -> 28401720
    [] createdAt = "2024-01-02" -> 28402560

\* seeded fault: the comparator of sortByVersion takes its arguments the other
\* way round
Comparator_VersionReversed(sortBy, a, b) ==
  CASE sortBy = "name" -> LocaleCompareBase(a.Title, b.Title)
    [] sortBy = "version" -> CompareVersions(b.Version, a.Version)
    [] sortBy = "created" -> GetTime(b.CreatedAt) - GetTime(a.CreatedAt)

\* seeded fault: the comparator of sortByCreatedDate puts the oldest first
Comparator_CreatedAscending(sortBy, a, b) ==
  CASE sortBy = "name" -> LocaleCompareBase(a.Title, b.Title)
    [] sortBy = "version" -> CompareVersions(a.Version, b.Version)
    [] sortBy = "created" -> GetTime(a.CreatedAt) - GetTime(b.CreatedAt)

\* the comparator sortByName, sortByVersion or sortByCreatedDate hands to sort
Comparator(sortBy, a, b) ==
  CASE sortBy = "name" -> LocaleCompareBase(a.Title, b.Title)
    [] sortBy = "version" -> CompareVersions(a.Version, b.Version)
    [] sortBy = "created" -> GetTime(b.CreatedAt) - GetTime(a.CreatedAt)

\* seeded fault: an element that compares equal to one already placed is left out
RECURSIVE InsertSorted_DropsEqual(_, _, _)
InsertSorted_DropsEqual(sortBy, sorted, x) ==
  IF sorted = <<>> THEN <<x>>
  ELSE IF Comparator(sortBy, Head(sorted), x) = 0 THEN sorted
  ELSE IF Comparator(sortBy, Head(sorted), x) < 0
         THEN <<Head(sorted)>> \o InsertSorted_DropsEqual(sortBy, Tail(sorted), x)
         ELSE <<x>> \o sorted

\* seeded fault: an element goes in front of the elements it compares equal to
RECURSIVE InsertSorted_BeforeEquals(_, _, _)
InsertSorted_BeforeEquals(sortBy, sorted, x) ==
  IF sorted = <<>> THEN <<x>>
  ELSE IF Comparator(sortBy, Head(sorted), x) < 0
         THEN <<Head(sorted)>> \o InsertSorted_BeforeEquals(sortBy, Tail(sorted), x)
         ELSE <<x>> \o sorted

\* the place sort gives an element among those before it: behind every
\* element that does not compare greater (the sort is stable)
RECURSIVE InsertSorted(_, _, _)
InsertSorted(sortBy, sorted, x) ==
  IF sorted = <<>> THEN <<x>>
  ELSE IF Comparator(sortBy, Head(sorted), x) <= 0
         THEN <<Head(sorted)>> \o InsertSorted(sortBy, Tail(sorted), x)
         ELSE <<x>> \o sorted

\* Array.prototype.sort with the comparator of the field
RECURSIVE ArraySort(_, _)
ArraySort(sortBy, documents) ==
  IF documents = <<>> THEN <<>>
  ELSE InsertSorted(sortBy,
                    ArraySort(sortBy, SubSeq(documents, 1, Len(documents) - 1)),
                    documents[Len(documents)])

\* seeded fault: the array passed in is sorted in place and returned
SortDocuments_InPlace(documents, sortBy) ==
  IF sortBy \in {"name", "version", "created"}
    THEN [result |-> ArraySort(sortBy, documents),
          documents |-> ArraySort(sortBy, documents), aliased |-> TRUE]
    ELSE [result |-> documents, documents |-> documents, aliased |-> TRUE]

\* seeded fault: an unrecognized field sorts by name
SortDocuments_DefaultByName(documents, sortBy) ==
  IF sortBy = ""
    THEN [result |-> documents, documents |-> documents, aliased |-> FALSE]
    ELSE [result |-> ArraySort(IF sortBy \in {"version", "created"} THEN sortBy ELSE "name",
                               documents),
          documents |-> documents, aliased |-> FALSE]

\* sortDocuments(documents, sortBy): the array returned, the array passed in
\* as the call leaves it, and whether the two are one array
SortDocuments(documents, sortBy) ==
  IF sortBy = ""
    THEN [result |-> documents, documents |-> documents, aliased |-> FALSE]
    ELSE IF sortBy \in {"name", "version", "created"}
           THEN [result |-> ArraySort(sortBy, documents),
                 documents |-> documents, aliased |-> FALSE]
           ELSE [result |-> documents, documents |-> documents, aliased |-> FALSE]

\* the version strings compared
Versions ==
  { <<"1", ".", "0", ".", "0">>,
    <<"1", ".", "0", ".", "2">>,
    <<"1", ".", "0", ".", "1", "0">>,
    <<"2", ".", "0">>,
    <<"1", ".", "9", ".", "9">>,
    <<"i", "n", "v", "a", "l", "i", "d">>,
    <<>>,
    <<"0", ".", "0", ".", "0">>,
    <<"i", "n", "v", "a", "l", "i", "d", ".", "v", "e", "r", "s", "i", "o", "n">>,
    <<"1", ".", "2", "b">>,
    <<"1", ".", ".", "1">>,
    <<"1", ".", "0">> }

\* the documents sorted
SortDocs ==
  { [ID |-> "d1", Title |-> <<"A", "l", "p", "h", "a">>,
     Version |-> <<"1", ".", "0", ".", "1", "0">>,
     CreatedAt |-> "2024-01-01T10:00:00Z"],
    [ID |-> "d2", Title |-> <<"a", "l", "p", "h", "a">>,
     Version |-> <<"1", ".", "0", ".", "2">>,
     CreatedAt |-> "2024-01-02"],
    [ID |-> "d3", Title |-> <<"B", "E", "T", "A">>,
     Version |-> <<"2", ".", "0">>,
     CreatedAt |-> "2024-01-01T10:00:00.000Z"],
    [ID |-> "d4", Title |-> <<"z", "e", "b", "r", "a">>,
     Version |-> <<"i", "n", "v", "a", "l", "i", "d">>,
     CreatedAt |-> "2024-01-01T00:59:00+01:00"],
    [ID |-> "d5", Title |-> <<"b", "e", "t", "a">>,
     Version |-> <<>>,
     CreatedAt |-> "2024-01-02"] }

\* the sequences of at most n of these documents
SeqsOfDocs(n) == UNION {[1..k -> SortDocs] : k \in 0..n}

\* the values of the sort select, and values that are no SortField
SortFields == {"", "name", "version", "created", "invalid"}

\* --------------------------------------------- notification components
\* Notifications (src/unnamed/part_008), NotificationsWindow
\* (src/src/components/NotificationsWindow.ts) and the listener of
\* NotificationsController (src/src/controllers/NotificationsController.ts).
MaxEvents == 3

NOTIFICATION_DURATION == 4000
CONTROLLER_DURATION == 4000
MAX_NOTIFICATIONS == 30

\* notifications handed to the controller's listener
Notifs == [UserName : {"", "Ann"}, DocumentTitle : {"", "IPA"}]

\* new Notifications(): no text, badge 0, no timer
NoToast ==
  [text |-> "", count |-> 0, duration |-> NOTIFICATION_DURATION,
   timer |-> FALSE, visible |-> FALSE]

\* showMessage(message, duration)
ShowMessage(t, message, duration) ==
  [text |-> message, count |-> t.count + 1, duration |-> duration,
   timer |-> TRUE, visible |-> TRUE]

\* hideMessage()
HideMessage(t) == [t EXCEPT !.visible = FALSE, !.timer = FALSE]

\* seeded fault: beyond the cap the newest entry is dropped
AddNotification_EvictsNewest(list, message, title) ==
  LET added == <<[title |-> title, message |-> message]>> \o list
  IN IF Len(added) > MAX_NOTIFICATIONS THEN Tail(added) ELSE added

\* addNotification(message, title): unshift, then pop beyond the cap
AddNotification(list, message, title) ==
  LET added == <<[title |-> title, message |-> message]>> \o list
  IN IF Len(added) > MAX_NOTIFICATIONS THEN SubSeq(added, 1, Len(added) - 1) ELSE added

\* seeded fault: the message leaves out the quotes around the title
FormatMessage_NoQuotes(n) == n.UserName \o " created " \o n.DocumentTitle

\* `${notification.UserName} created "${notification.DocumentTitle}"`
FormatMessage(n) == n.UserName \o " created \"" \o n.DocumentTitle \o "\""

\* onNotificationReceived(notification)
OnNotificationReceived(t, list, n) ==
  LET message == FormatMessage(n)
  IN [toast |-> ShowMessage(t, message, CONTROLLER_DURATION),
      notifications |-> AddNotification(list, message, "New Document"),
      toasted |-> <<message>>]


\* ------------------------------------------------------------------ state
VARIABLES
  storage,     \* localStorage value under CACHE_KEY
  usedCache,   \* DocumentService.usedCache
  awaitingFetch, \* pending getDocuments() calls suspended at `await fetch(...)`
  awaitingJson,  \* pending getDocuments() calls suspended at `await response.json()`
  last,        \* history: the operation that completed (or call that started) most recently
  lastFetch,   \* history: how the most recently completed getDocuments() ended
  live,        \* history: IDs persisted by addToCache and not removed since
  ws,          \* NotificationsService.ws: index into conns, 0 for null
  conns,       \* the connect() calls so far: socket state and returned promise
  callbacks,   \* NotificationsService.callbacks in insertion order
  handles,     \* the closures subscribe() has returned: listener, called before or not
  order,       \* history: listeners in subscription order, none of whose closures ran since
  attempts,    \* history: number of WebSocket constructor invocations
  connectCalls, \* history: number of connect() calls
  nlast,       \* history: the latest NotificationsService step
  toast,       \* Notifications component: text, badge count, hide timer
  notifications, \* NotificationsWindow.notifications
  events,      \* history: events delivered to onNotificationReceived, in order
  shown,       \* history: messages handed to the toast, in order
  added,       \* history: the entries handed to addNotification, oldest first
  sorted,      \* history: the latest call if it was sortDocuments(): argument and result
  compared,    \* history: the latest call if it was compareVersions()
  app,         \* AppInitializer.initialize() and the controllers it starts
  nc           \* a NotificationsController driven directly: unsubscribe, initialize() calls

dsVars == <<storage, usedCache, awaitingFetch, awaitingJson, last, lastFetch, live>>
nsVars == <<ws, conns, callbacks, handles, order, attempts, connectCalls, nlast>>
ctlVars == <<toast, notifications, events, shown>>
logVars == <<added>>
sortVars == <<sorted, compared>>
appVars == <<app>>
ncVars == <<nc>>
restVars == <<logVars, sortVars, appVars, ncVars>>
vars == <<dsVars, nsVars, ctlVars, restVars>>

NoOp ==
  [op |-> "none", pre |-> Absent, remote |-> "none", R |-> <<>>,
   accept |-> TRUE, prevUsedCache |-> FALSE, id |-> "", interleaved |-> "",
   outcome |-> "none", result |-> <<>>, error |-> "none", logs |-> <<>>,
   setItemCalled |-> FALSE, setItemArg |-> <<>>, arg |-> NoDoc]

Called == [NoOp EXCEPT !.op = "call"]

\* the completed operation, its inputs and what it did
Completed(op, remote, R, accept, id, interleaved, eff) ==
  [op |-> op, pre |-> storage, remote |-> remote, R |-> R,
   accept |-> accept, prevUsedCache |-> usedCache, id |-> id,
   interleaved |-> interleaved,
   outcome |-> eff.outcome, result |-> eff.result, error |-> eff.error,
   logs |-> eff.logs, setItemCalled |-> eff.setItemCalled,
   setItemArg |-> eff.setItemArg, arg |-> eff.arg]

\* Values a previous session (or a foreign writer) may have left under the key
InitialStorage ==
  { Absent, EmptyText, Malformed, ArrayText(<<>>),
    ArrayText(<<<<"ID", "a">>, <<"ID", "u", "isUserCreated", "true">>,
                <<"ID", "b", "isUserCreated", "false">>>>) }

\* Remote responses: JSON arrays of documents without the provenance flag
RECURSIVE SeqsUpTo(_, _)
SeqsUpTo(S, n) ==
  IF n = 0 THEN {<<>>}
  ELSE LET shorter == SeqsUpTo(S, n - 1)
       IN shorter \cup {Append(s, x) : s \in shorter, x \in S}

RemoteLists == SeqsUpTo({[ID |-> i] : i \in RemoteIDs}, MaxRemote)

\* Documents handed to addToCache
NewDocs == {[ID |-> i] : i \in UserIDs} \cup {[ID |-> i, isUserCreated |-> FALSE] : i \in UserIDs}

\* the latest NotificationsService step, its inputs and what it did
NoStep ==
  [op |-> "none", conn |-> 0, calledBefore |-> FALSE, changed |-> FALSE,
   frame |-> <<>>, throwers |-> {}, preWs |-> 0,
   preState |-> "none", parsed |-> FALSE, delivered |-> NoNotification,
   invoked |-> <<>>, caught |-> FALSE, escaped |-> FALSE,
   closeCalled |-> FALSE, touched |-> {}, logs |-> <<>>]

\* new DocumentService(): the key holds what an earlier session left
InitDocuments ==
  /\ usedCache = FALSE
  /\ awaitingFetch = 0
  /\ awaitingJson = 0
  /\ last = NoOp
  /\ lastFetch = "none"
  /\ live = {}

\* no closure handed out: per listener, how many closures have not been
\* called and whether one has been
NoHandles == [l \in Listeners |-> [fresh |-> 0, used |-> FALSE]]

\* new NotificationsService()
InitNotifications ==
  /\ ws = 0
  /\ conns = <<>>
  /\ callbacks = <<>>
  /\ handles = NoHandles
  /\ order = <<>>
  /\ attempts = 0
  /\ connectCalls = 0
  /\ nlast = NoStep

\* new Notifications(), new NotificationsWindow()
InitComponents ==
  /\ toast = NoToast
  /\ notifications = <<>>
  /\ events = <<>>
  /\ shown = <<>>

\* nothing has been handed to the components beside the services
NoSort ==
  [called |-> FALSE, sortBy |-> "", input |-> <<>>, documents |-> <<>>,
   result |-> <<>>, aliased |-> FALSE, onResultOf |-> "none"]

NoCompare == [called |-> FALSE, a |-> <<>>, b |-> <<>>, result |-> 0]

\* DocumentSortingService keeps no state: no call has been made
InitSorting ==
  /\ sorted = NoSort
  /\ compared = NoCompare

\* AppInitializer before initialize(): no controller yet; the offline banner
\* of the page is hidden and nothing is rendered
NoApp ==
  [pc |-> "idle", settled |-> "pending", error |-> "none", thrown |-> "none",
   started |-> <<>>, logs |-> <<>>, banner |-> FALSE, documents |-> <<>>,
   renders |-> <<>>, documentsInit |-> "none", conn |-> 0,
   currentSort |-> "", cards |-> <<>>, events |-> 0,
   event |-> [op |-> "none", document |-> NoDoc, id |-> "", field |-> "", accept |-> TRUE]]

InitApp ==
  /\ app = NoApp

\* new NotificationsController(service): unsubscribe = null
NoController ==
  [unsubscribe |-> "null", initialize |-> <<>>, destroys |-> 0,
   called |-> [l \in Listeners |-> 0],
   last |-> [op |-> "none", stored |-> "null"]]

InitController ==
  /\ nc = NoController

InitRest ==
  /\ added = <<>>
  /\ InitSorting
  /\ InitApp
  /\ InitController

Init ==
  /\ storage \in InitialStorage
  /\ InitDocuments
  /\ InitNotifications
  /\ InitComponents
  /\ InitRest

\* ---------------------------------------------------------------- actions
\* getDocuments() is called and suspends at `await fetch(...)`
GetDocumentsCall ==
  /\ awaitingFetch + awaitingJson < MaxCalls
  /\ awaitingFetch' = awaitingFetch + 1
  /\ last' = Called
  /\ UNCHANGED <<storage, usedCache, awaitingJson, lastFetch, live>>
  /\ UNCHANGED <<nsVars, ctlVars, restVars>>

\* The ID that addToCache persisted at a suspension point of the call that
\* now resumes, when that was the latest thing to happen ("" otherwise)
AddedWhilePending ==
  IF last.op = "addToCache" /\ last.accept THEN last.id ELSE ""

\* the end of a getDocuments() call through either branch
Finish(remote, R, accept, eff) ==
  /\ storage' = eff.storage
  /\ usedCache' = eff.usedCache
  /\ last' = Completed("getDocuments", remote, R, accept, "", AddedWhilePending, eff)
  /\ lastFetch' = CASE eff.path = "merge" -> "success"
                     [] eff.path = "cache" -> "fallback"
                     [] OTHER -> "rejected"
  /\ UNCHANGED live
  /\ UNCHANGED <<nsVars, ctlVars, restVars>>

\* fetch() rejects (network error)
FetchRejects ==
  /\ awaitingFetch > 0
  /\ awaitingFetch' = awaitingFetch - 1
  /\ UNCHANGED awaitingJson
  /\ Finish("network", <<>>, TRUE, GetDocumentsCatch(storage, usedCache, "network"))

\* fetch() resolves with a response whose ok is false
FetchResolvesNotOk ==
  /\ awaitingFetch > 0
  /\ awaitingFetch' = awaitingFetch - 1
  /\ UNCHANGED awaitingJson
  /\ Finish("http", <<>>, TRUE, GetDocumentsCatch(storage, usedCache, "http"))

\* fetch() resolves with an ok response; the call suspends at `await response.json()`
FetchResolvesOk ==
  /\ awaitingFetch > 0
  /\ awaitingFetch' = awaitingFetch - 1
  /\ awaitingJson' = awaitingJson + 1
  /\ UNCHANGED <<storage, usedCache, last, lastFetch, live>>
  /\ UNCHANGED <<nsVars, ctlVars, restVars>>

\* response.json() rejects (body is not JSON)
JsonRejects ==
  /\ awaitingJson > 0
  /\ awaitingJson' = awaitingJson - 1
  /\ UNCHANGED awaitingFetch
  /\ Finish("decode", <<>>, TRUE, GetDocumentsCatch(storage, usedCache, "decode"))

\* response.json() resolves with the remote list
JsonResolves ==
  /\ awaitingJson > 0
  /\ awaitingJson' = awaitingJson - 1
  /\ UNCHANGED awaitingFetch
  /\ \E R \in RemoteLists, accept \in BOOLEAN :
       Finish("ok", R, accept, GetDocumentsMerge(storage, usedCache, R, accept))

AddToCache ==
  \E doc \in NewDocs, accept \in BOOLEAN :
    LET eff == AddToCacheEffect(storage, usedCache, doc, accept)
    IN /\ Len(storage.items) < MaxCache
       /\ storage' = eff.storage
       /\ usedCache' = eff.usedCache
       /\ last' = Completed("addToCache", "none", <<>>, accept, doc.ID, "", eff)
       /\ live' = IF accept THEN live \cup {doc.ID} ELSE live
       /\ UNCHANGED <<awaitingFetch, awaitingJson, lastFetch>>
       /\ UNCHANGED <<nsVars, ctlVars, restVars>>

RemoveFromCache ==
  \E id \in RemoteIDs \cup UserIDs, accept \in BOOLEAN :
    LET eff == RemoveFromCacheEffect(storage, usedCache, id, accept)
    IN /\ storage' = eff.storage
       /\ usedCache' = eff.usedCache
       /\ last' = Completed("removeFromCache", "none", <<>>, accept, id, "", eff)
       /\ live' = live \ {id}
       /\ UNCHANGED <<awaitingFetch, awaitingJson, lastFetch>>
       /\ UNCHANGED <<nsVars, ctlVars, restVars>>

Next ==
  \/ GetDocumentsCall
  \/ FetchRejects
  \/ FetchResolvesNotOk
  \/ FetchResolvesOk
  \/ JsonRejects
  \/ JsonResolves
  \/ AddToCache
  \/ RemoveFromCache

Spec == Init /\ [][Next]_vars

\* ----------------------------------------- NotificationsService actions
Step(op, i, fields) == fields @@ [NoStep EXCEPT !.op = op, !.conn = i, !.preWs = ws]

\* connect(): the WebSocket constructor returns a socket or throws
Connect ==
  \E constructorThrows \in BOOLEAN :
    LET eff == ConnectEffect(ws, conns, constructorThrows)
    IN /\ Len(conns) < MaxConnects
       /\ ws' = eff.ws
       /\ conns' = eff.conns
       /\ attempts' = attempts + eff.constructed
       /\ connectCalls' = connectCalls + 1
       /\ nlast' = NoStep
       /\ UNCHANGED <<callbacks, handles, order>>
       /\ UNCHANGED <<dsVars, ctlVars, restVars>>

\* a socket event: the browser sets readyState, then runs the handler
SocketEvent(op, i, marks, eff) ==
  /\ conns' = [k \in 1..Len(eff.conns) |->
                 IF k = i THEN marks @@ eff.conns[k] ELSE eff.conns[k]]
  /\ attempts' = attempts + eff.constructed
  /\ nlast' = NoStep
  /\ UNCHANGED <<ws, callbacks, handles, order, connectCalls>>
  /\ UNCHANGED <<dsVars, ctlVars, restVars>>

\* the open event of a connecting socket
SocketOpens ==
  \E i \in 1..Len(conns) :
    /\ conns[i].readyState = "connecting"
    /\ SocketEvent("open", i, [readyState |-> "open", opened |-> TRUE], OnOpen(conns, i))

\* the error event: the connection failed; the close event follows
SocketFails ==
  \E i \in 1..Len(conns) :
    /\ conns[i].readyState \in {"connecting", "open", "closing"}
    /\ SocketEvent("error", i, [readyState |-> "closed", failed |-> TRUE], OnError(conns, i))

\* the close event: after an error, at the end of the closing handshake, or
\* when the server closes an open connection
SocketCloses ==
  \E i \in 1..Len(conns) :
    /\ \/ conns[i].readyState \in {"open", "closing"}
       \/ conns[i].readyState = "closed" /\ ~conns[i].closeFired
    /\ SocketEvent("close", i, [readyState |-> "closed", closeFired |-> TRUE], OnClose(conns, i))

\* the registered listeners that may throw when called with the notification
\* of this frame (none is called for a frame that does not parse)
MayThrow(frame) ==
  IF ParseFrame(frame).ok THEN SUBSET {callbacks[k] : k \in 1..Len(callbacks)} ELSE {{}}

\* a message event of an open socket; throwers are the listeners that throw
\* when called with this notification
MessageArrives ==
  \E i \in 1..Len(conns), frame \in Frames :
   \E throwers \in MayThrow(frame) :
    LET eff == OnMessage(callbacks, frame, throwers)
    IN /\ conns[i].readyState = "open"
       /\ nlast' = Step("message", i,
                        [frame |-> frame, throwers |-> throwers,
                         parsed |-> eff.parsed, delivered |-> eff.delivered,
                         invoked |-> eff.invoked, caught |-> eff.caught,
                         escaped |-> eff.escaped, logs |-> eff.logs])
       /\ UNCHANGED <<ws, conns, callbacks, handles, order, attempts, connectCalls>>
       /\ UNCHANGED <<dsVars, ctlVars, restVars>>

\* closures handed out by subscribe() and not called so far
Outstanding == handles["f"].fresh + handles["g"].fresh

\* subscribe(callback): the returned closure is kept by the caller
Subscribe ==
  \E l \in Listeners :
    /\ Outstanding < MaxHandles
    /\ callbacks' = SetAdd(callbacks, l)
    /\ handles' = [handles EXCEPT ![l].fresh = @ + 1]
    /\ order' = IF l \in {order[k] : k \in 1..Len(order)} THEN order ELSE order \o <<l>>
    /\ nlast' = NoStep
    /\ UNCHANGED <<ws, conns, attempts, connectCalls>>
    /\ UNCHANGED <<dsVars, ctlVars, restVars>>

\* the body of a closure subscribe(callback) returned
UnsubscribeEffect(cbs, callback) == SetDelete(cbs, callback)

\* a caller runs a closure returned by subscribe(l): one not called so far,
\* or one that has been called before
Unsubscribe ==
  \E l \in Listeners, calledBefore \in BOOLEAN :
    /\ IF calledBefore THEN handles[l].used ELSE handles[l].fresh > 0
    /\ callbacks' = UnsubscribeEffect(callbacks, l)
    /\ handles' = IF calledBefore THEN handles
                  ELSE [handles EXCEPT ![l].fresh = @ - 1, ![l].used = TRUE]
    /\ order' = SelectSeq(order, LAMBDA x : x # l)
    /\ nlast' = [NoStep EXCEPT !.op = "unsubscribe", !.calledBefore = calledBefore,
                                !.changed = (callbacks' # callbacks)]
    /\ UNCHANGED <<ws, conns, attempts, connectCalls>>
    /\ UNCHANGED <<dsVars, ctlVars, restVars>>

\* disconnect()
Disconnect ==
  LET eff == DisconnectEffect(ws, conns)
  IN /\ ws' = eff.ws
     /\ conns' = eff.conns
     /\ nlast' = Step("disconnect", ws,
                      [preState |-> IF ws = 0 THEN "none" ELSE conns[ws].readyState,
                       closeCalled |-> eff.closeCalled,
                       touched |-> {k \in 1..Len(conns) : eff.conns[k] # conns[k]},
                       logs |-> eff.logs])
     /\ callbacks' = IF eff.callbacksCleared THEN <<>> ELSE callbacks
     /\ UNCHANGED <<handles, order, attempts, connectCalls>>
     /\ UNCHANGED <<dsVars, ctlVars, restVars>>

NextNotifications ==
  \/ Connect
  \/ SocketOpens
  \/ SocketFails
  \/ SocketCloses
  \/ MessageArrives
  \/ Subscribe
  \/ Unsubscribe
  \/ Disconnect

\* a NotificationsService on its own; the cache is not touched
InitNotificationsOnly ==
  /\ storage = Absent
  /\ InitDocuments
  /\ InitNotifications
  /\ InitComponents
  /\ InitRest

SpecNotifications == InitNotificationsOnly /\ [][NextNotifications]_vars

\* -------------------------------------------- notification sink actions
\* the service's broadcast calls the controller's listener
NotificationDelivered ==
  \E n \in Notifs :
    LET eff == OnNotificationReceived(toast, notifications, n)
    IN /\ Len(events) < MaxEvents
       /\ toast' = eff.toast
       /\ notifications' = eff.notifications
       /\ events' = Append(events, n)
       /\ shown' = shown \o eff.toasted
       /\ UNCHANGED <<dsVars, nsVars, restVars>>

\* the hide timer set by showMessage or mouseleave fires
HideTimeoutFires ==
  /\ toast.timer
  /\ toast' = HideMessage(toast)
  /\ UNCHANGED <<notifications, events, shown>>
  /\ UNCHANGED <<dsVars, nsVars, restVars>>

\* mouseenter: a pending hide timer is cleared
MouseEnter ==
  /\ toast.timer
  /\ toast' = [toast EXCEPT !.timer = FALSE]
  /\ UNCHANGED <<notifications, events, shown>>
  /\ UNCHANGED <<dsVars, nsVars, restVars>>

\* mouseleave: a toast that is showing gets a new hide timer
MouseLeave ==
  /\ toast.visible /\ ~toast.timer
  /\ toast' = [toast EXCEPT !.timer = TRUE]
  /\ UNCHANGED <<notifications, events, shown>>
  /\ UNCHANGED <<dsVars, nsVars, restVars>>

NextComponents ==
  \/ NotificationDelivered
  \/ HideTimeoutFires
  \/ MouseEnter
  \/ MouseLeave

SpecComponents == InitNotificationsOnly /\ [][NextComponents]_vars

\* ------------------------------------------------ notification log alone
\* the title addNotification gives an entry when the caller passes none
DEFAULT_TITLE == "Notification"

\* the entries of n earlier addNotification calls, oldest first
Backlog(n) ==
  [k \in 1..n |-> [title |-> DEFAULT_TITLE, message |-> "Message " \o ToString(k)]]

\* the log after addNotification has been called with these entries in turn
RECURSIVE AddAll(_, _)
AddAll(list, entries) ==
  IF entries = <<>> THEN list
  ELSE AddAll(AddNotification(list, Head(entries).message, Head(entries).title),
              Tail(entries))

NewMessages == {"First message", "Second message"}

\* entries of `added` that the calls of this run contributed
NewCalls == Cardinality({k \in 1..Len(added) : added[k].message \in NewMessages})

\* a NotificationsWindow that has taken up to MAX_NOTIFICATIONS notifications
InitLog ==
  /\ storage = Absent
  /\ InitDocuments
  /\ InitNotifications
  /\ toast = NoToast
  /\ events = <<>>
  /\ shown = <<>>
  /\ InitSorting
  /\ InitApp
  /\ InitController
  /\ \E n \in 0..MAX_NOTIFICATIONS :
       /\ added = Backlog(n)
       /\ notifications = AddAll(<<>>, Backlog(n))

\* addNotification(message) with the default title
AddNotificationDefaultTitle ==
  \E message \in NewMessages :
    /\ NewCalls < MaxEvents
    /\ notifications' = AddNotification(notifications, message, DEFAULT_TITLE)
    /\ added' = Append(added, [title |-> DEFAULT_TITLE, message |-> message])
    /\ UNCHANGED <<toast, events, shown>>
    /\ UNCHANGED <<dsVars, nsVars, sortVars, appVars, ncVars>>

\* addNotification(message, title)
AddNotificationWithTitle ==
  \E message \in NewMessages :
    /\ NewCalls < MaxEvents
    /\ notifications' = AddNotification(notifications, message, "New Document")
    /\ added' = Append(added, [title |-> "New Document", message |-> message])
    /\ UNCHANGED <<toast, events, shown>>
    /\ UNCHANGED <<dsVars, nsVars, sortVars, appVars, ncVars>>

NextLog ==
  \/ AddNotificationDefaultTitle
  \/ AddNotificationWithTitle

SpecLog == InitLog /\ [][NextLog]_vars

\* ------------------------------------------ DocumentSortingService alone
\* the arrays a caller may hold: up to MaxSortLen documents, no document twice
SortInputs ==
  {l \in SeqsOfDocs(MaxSortLen) : \A i, j \in 1..Len(l) : l[i] = l[j] => i = j}

\* what a sortDocuments(documents, sortBy) call leaves behind
SortCall(documents, sortBy, onResultOf) ==
  LET call == SortDocuments(documents, sortBy)
  IN [called |-> TRUE, sortBy |-> sortBy, input |-> documents,
      documents |-> call.documents, result |-> call.result,
      aliased |-> call.aliased, onResultOf |-> onResultOf]

\* sortDocuments(documents, sortBy) on an array the caller holds
CallSortDocuments ==
  \E documents \in SortInputs, sortBy \in SortFields :
    /\ sorted' = SortCall(documents, sortBy, "none")
    /\ compared' = NoCompare
    /\ UNCHANGED <<logVars, appVars, ncVars, dsVars, nsVars, ctlVars>>

\* sortDocuments(previous, sortBy) on the array the previous call returned
\* for the same field
CallSortDocumentsOnResult ==
  /\ sorted.called
  /\ sorted.onResultOf = "none"
  /\ sorted' = SortCall(sorted.result, sorted.sortBy, sorted.sortBy)
  /\ compared' = NoCompare
  /\ UNCHANGED <<logVars, appVars, ncVars, dsVars, nsVars, ctlVars>>

\* compareVersions(a, b)
CallCompareVersions ==
  \E a \in Versions, b \in Versions :
    /\ compared' = [called |-> TRUE, a |-> a, b |-> b, result |-> CompareVersions(a, b)]
    /\ sorted' = NoSort
    /\ UNCHANGED <<logVars, appVars, ncVars, dsVars, nsVars, ctlVars>>

NextSorting ==
  \/ CallSortDocuments
  \/ CallSortDocumentsOnResult
  \/ CallCompareVersions

SpecSorting == InitNotificationsOnly /\ [][NextSorting]_vars

\* --------------------------------------------------------- AppInitializer
\* (src/unnamed/part_004) with DocumentController.initialize
\* (src/unnamed/part_003) and NotificationsController.initialize
AppLog(level, scope, what) == [level |-> level, scope |-> scope, what |-> what]

\* seeded fault: an error of the view handler or the DocumentController is
\* logged and initialize() carries on with the notifications
InitializeCatch_CarriesOn(a, site, error) ==
  IF site \in {"view", "documents"}
    THEN [a EXCEPT !.logs = Append(@, AppLog("error", "AppInitializer", error)),
                   !.thrown = site, !.pc = "documentsReady"]
    ELSE [a EXCEPT !.logs = Append(@, AppLog("error", "AppInitializer", error)),
                   !.thrown = site, !.settled = "rejected", !.error = error, !.pc = "done"]

\* the catch block of AppInitializer.initialize: log the error, throw it on
InitializeCatch(a, site, error) ==
  [a EXCEPT !.logs = Append(@, AppLog("error", "AppInitializer", error)),
            !.thrown = site, !.settled = "rejected", !.error = error, !.pc = "done"]

\* seeded fault: the catch block around notificationsController.initialize()
\* throws the error on
NotificationsCatch_Rethrows(a, error) == InitializeCatch(a, "notifications", error)

\* the catch block around notificationsController.initialize(): a warning;
\* initializeNotificationsController and with it initialize() return
NotificationsCatch(a, error) ==
  [a EXCEPT !.logs = Append(@, AppLog("warn", "AppInitializer",
                                      "Failed to initialize notifications")),
            !.settled = "resolved", !.pc = "done"]

\* Title, Version and CreatedAt of the documents, by ID
FieldsOf(id) ==
  CASE id = "a" -> [Title |-> <<"z", "e", "b", "r", "a">>,
                    Version |-> <<"1", ".", "0", ".", "1", "0">>,
                    CreatedAt |-> "2024-01-01T10:00:00Z"]
    [] id = "b" -> [Title |-> <<"A", "l", "p", "h", "a">>,
                    Version |-> <<"2", ".", "0">>,
                    CreatedAt |-> "2024-01-02"]
    [] OTHER    -> [Title |-> <<"b", "e", "t", "a">>,
                    Version |-> <<"1", ".", "0", ".", "2">>,
                    CreatedAt |-> "2024-01-01T00:59:00+01:00"]

\* a document of the list with the fields the comparators read
WithFields(doc) == doc @@ FieldsOf(doc.ID)

\* the same document as the services hold it
WithoutFields(doc) ==
  IF HasFlag(doc) THEN [ID |-> doc.ID, isUserCreated |-> doc.isUserCreated]
                  ELSE [ID |-> doc.ID]

\* renderCurrentDocuments(): the list sortDocuments returns for the
\* documents and the selected field, which is handed to renderDocuments
RenderCurrentDocuments(documents, currentSort) ==
  LET sortedDocuments ==
        SortDocuments([k \in 1..Len(documents) |-> WithFields(documents[k])],
                      currentSort).result
  IN [k \in 1..Len(sortedDocuments) |-> WithoutFields(sortedDocuments[k])]

\* seeded fault: every card is given the delete callback
RenderDocuments_AlwaysDeletable(documents) ==
  [k \in 1..Len(documents) |-> [ID |-> documents[k].ID, onDelete |-> TRUE]]

\* DocumentRenderer.renderDocuments: one card per document, in order, with
\* the delete callback if document.isUserCreated is truthy
RenderDocuments(documents) ==
  [k \in 1..Len(documents) |->
     [ID |-> documents[k].ID, onDelete |-> Truthy(documents[k])]]

\* the controller after renderCurrentDocuments()
Rendered(a) ==
  LET sortedDocuments == RenderCurrentDocuments(a.documents, a.currentSort)
  IN [a EXCEPT !.renders = Append(@, sortedDocuments),
               !.cards = RenderDocuments(sortedDocuments)]

\* addDocument(document): stamped is the same object after addToCache
AddDocument(a, document, stamped) ==
  Rendered([a EXCEPT !.documents = Append(@, stamped)])

\* handleDeleteDocument(documentId)
HandleDeleteDocument(a, documentId) ==
  Rendered([a EXCEPT !.documents = FilterOutId(@, documentId)])

\* seeded fault: the change listener renders before it stores the value
SortChanged_RendersFirst(a, value) ==
  [Rendered(a) EXCEPT !.currentSort = value]

\* the change listener of the sort select
SortChanged(a, value) ==
  Rendered([a EXCEPT !.currentSort = value])

\* seeded fault: DocumentController.initialize has no catch block
DocumentControllerInitialize_NoCatch(a, fetched, isOffline) ==
  IF fetched.outcome = "returned"
    THEN Rendered([a EXCEPT !.documents = fetched.result,
                            !.banner = @ \/ isOffline,
                            !.documentsInit = "resolved"])
    ELSE [a EXCEPT !.documentsInit = "rejected", !.error = fetched.error]

\* DocumentController.initialize from the point where getDocuments() settles
DocumentControllerInitialize(a, fetched, isOffline) ==
  IF fetched.outcome = "returned"
    THEN Rendered([a EXCEPT !.documents = fetched.result,
                            !.banner = @ \/ isOffline,
                            !.documentsInit = "resolved"])
    ELSE [a EXCEPT !.logs = Append(@, AppLog("error", "DocumentController", fetched.error)),
                   !.banner = TRUE,
                   !.documentsInit = "resolved"]

\* `await this.documentController.initialize()` resumes: on with the
\* notifications, or into the catch block
AfterDocumentController(a) ==
  IF a.documentsInit = "rejected"
    THEN InitializeCatch(a, "documents", a.error)
    ELSE [a EXCEPT !.pc = "documentsReady"]

\* initialize(): TableViewHandler, then DocumentController, whose
\* initialize() suspends in getDocuments(); either constructor may throw
AppInitialize ==
  \E viewThrows \in BOOLEAN, controllerThrows \in BOOLEAN :
    /\ app.pc = "idle"
    /\ IF viewThrows
         THEN /\ app' = InitializeCatch(app, "view", "element not found")
              /\ UNCHANGED awaitingFetch
         ELSE IF controllerThrows
           THEN /\ app' = InitializeCatch([app EXCEPT !.started = <<"view">>],
                                          "documents", "element not found")
                /\ UNCHANGED awaitingFetch
           ELSE /\ app' = [app EXCEPT !.started = <<"view", "documents">>,
                                      !.documentsInit = "pending", !.pc = "fetch"]
                /\ awaitingFetch' = awaitingFetch + 1
    /\ UNCHANGED <<storage, usedCache, awaitingJson, last, lastFetch, live>>
    /\ UNCHANGED <<nsVars, ctlVars, logVars, sortVars, ncVars>>

\* getDocuments() settles; DocumentController.initialize and then
\* AppInitializer.initialize resume
DocumentsSettle(fetched) ==
  /\ storage' = fetched.storage
  /\ usedCache' = fetched.usedCache
  /\ lastFetch' = CASE fetched.path = "merge" -> "success"
                     [] fetched.path = "cache" -> "fallback"
                     [] OTHER -> "rejected"
  /\ app' = AfterDocumentController(
              DocumentControllerInitialize(app, fetched, fetched.usedCache))
  /\ UNCHANGED <<last, live>>
  /\ UNCHANGED <<nsVars, ctlVars, logVars, sortVars, ncVars>>

\* fetch() rejects or resolves with a response that is not ok
AppFetchFails ==
  \E error \in {"network", "http"} :
    /\ app.pc = "fetch"
    /\ awaitingFetch' = awaitingFetch - 1
    /\ UNCHANGED awaitingJson
    /\ DocumentsSettle(GetDocumentsCatch(storage, usedCache, error))

\* fetch() resolves with an ok response
AppFetchResolvesOk ==
  /\ app.pc = "fetch"
  /\ awaitingFetch' = awaitingFetch - 1
  /\ awaitingJson' = awaitingJson + 1
  /\ app' = [app EXCEPT !.pc = "json"]
  /\ UNCHANGED <<storage, usedCache, last, lastFetch, live>>
  /\ UNCHANGED <<nsVars, ctlVars, logVars, sortVars, ncVars>>

\* response.json() rejects
AppJsonRejects ==
  /\ app.pc = "json"
  /\ awaitingJson' = awaitingJson - 1
  /\ UNCHANGED awaitingFetch
  /\ DocumentsSettle(GetDocumentsCatch(storage, usedCache, "decode"))

\* response.json() resolves with the remote list
AppJsonResolves ==
  \E R \in RemoteLists, accept \in BOOLEAN :
    /\ app.pc = "json"
    /\ awaitingJson' = awaitingJson - 1
    /\ UNCHANGED awaitingFetch
    /\ DocumentsSettle(GetDocumentsMerge(storage, usedCache, R, accept))

\* initializeNotificationsController: the service and the controller with
\* its two components, whose constructors may throw, then
\* notificationsController.initialize(), which suspends in connect() unless
\* the WebSocket constructor throws
AppStartNotifications ==
  \E componentsThrow \in BOOLEAN, constructorThrows \in BOOLEAN :
    LET eff == ConnectEffect(ws, conns, constructorThrows)
        a == [app EXCEPT !.started = Append(@, "notifications")]
    IN /\ app.pc = "documentsReady"
       /\ IF componentsThrow
            THEN /\ app' = InitializeCatch(a, "components", "element not found")
                 /\ UNCHANGED <<ws, conns, attempts, connectCalls>>
            ELSE /\ ws' = eff.ws
                 /\ conns' = eff.conns
                 /\ attempts' = attempts + eff.constructed
                 /\ connectCalls' = connectCalls + 1
                 /\ app' = IF constructorThrows
                             THEN NotificationsCatch([a EXCEPT !.conn = Len(eff.conns)],
                                                     "constructor")
                             ELSE [a EXCEPT !.conn = Len(eff.conns), !.pc = "connect"]
       /\ UNCHANGED <<callbacks, handles, order, nlast>>
       /\ UNCHANGED <<dsVars, ctlVars, logVars, sortVars, ncVars>>

\* the open event: connect() resolves, NotificationsController.initialize
\* subscribes its listener and initialize() returns
AppSocketOpens ==
  /\ app.pc = "connect"
  /\ conns[app.conn].readyState = "connecting"
  /\ conns' = [k \in 1..Len(conns) |->
                 IF k = app.conn
                   THEN [readyState |-> "open", opened |-> TRUE] @@ OnOpen(conns, k).conns[k]
                   ELSE conns[k]]
  /\ callbacks' = SetAdd(callbacks, "f")
  /\ handles' = [handles EXCEPT !["f"].fresh = @ + 1]
  /\ order' = Append(order, "f")
  /\ app' = [app EXCEPT !.settled = "resolved", !.pc = "done"]
  /\ UNCHANGED <<ws, attempts, connectCalls, nlast>>
  /\ UNCHANGED <<dsVars, ctlVars, logVars, sortVars, ncVars>>

\* the error event: connect() rejects, into the catch block
AppSocketFails ==
  /\ app.pc = "connect"
  /\ conns[app.conn].readyState = "connecting"
  /\ conns' = [k \in 1..Len(conns) |->
                 IF k = app.conn
                   THEN [readyState |-> "closed", failed |-> TRUE] @@ OnError(conns, k).conns[k]
                   ELSE conns[k]]
  /\ app' = IF conns'[app.conn].promise = "rejected"
              THEN NotificationsCatch(app, conns'[app.conn].error)
              ELSE app
  /\ UNCHANGED <<ws, callbacks, handles, order, attempts, connectCalls, nlast>>
  /\ UNCHANGED <<dsVars, ctlVars, logVars, sortVars, ncVars>>

NextApp ==
  \/ AppInitialize
  \/ AppFetchFails
  \/ AppFetchResolvesOk
  \/ AppJsonRejects
  \/ AppJsonResolves
  \/ AppStartNotifications
  \/ AppSocketOpens
  \/ AppSocketFails

SpecApp == Init /\ [][NextApp]_vars

\* ------------------------------------------- DocumentController actions
MaxUserEvents == 2

\* the values of the options of the sort select
SortOptions == {"", "name", "version", "created"}

\* a user event reaches the controller once it is constructed, also while
\* initialize() is suspended in getDocuments()
Constructed ==
  /\ app.documentsInit \in {"pending", "resolved"}
  /\ app.events < MaxUserEvents

\* what a handler leaves behind: the event, and the controller after it
Handled(a, op, document, id, field, accept) ==
  [a EXCEPT !.events = @ + 1,
            !.event = [op |-> op, document |-> document, id |-> id,
                       field |-> field, accept |-> accept]]

\* addDocument(document), from the form or from a caller
UserAddsDocument ==
  \E document \in NewDocs, accept \in BOOLEAN :
    LET eff == AddToCacheEffect(storage, usedCache, document, accept)
    IN /\ Constructed
       /\ Len(storage.items) < MaxCache
       /\ storage' = eff.storage
       /\ usedCache' = eff.usedCache
       /\ app' = Handled(AddDocument(app, document, eff.arg),
                         "add", document, document.ID, "", accept)
       /\ UNCHANGED <<awaitingFetch, awaitingJson, last, lastFetch, live>>
       /\ UNCHANGED <<nsVars, ctlVars, logVars, sortVars, ncVars>>

\* the delete button of a card that was given the callback
UserDeletesDocument ==
  \E k \in 1..Len(app.cards), accept \in BOOLEAN :
    LET documentId == app.cards[k].ID
        eff == RemoveFromCacheEffect(storage, usedCache, documentId, accept)
    IN /\ Constructed
       /\ app.cards[k].onDelete
       /\ storage' = eff.storage
       /\ usedCache' = eff.usedCache
       /\ app' = Handled(HandleDeleteDocument(app, documentId),
                         "delete", NoDoc, documentId, "", accept)
       /\ UNCHANGED <<awaitingFetch, awaitingJson, last, lastFetch, live>>
       /\ UNCHANGED <<nsVars, ctlVars, logVars, sortVars, ncVars>>

\* the user selects an option of the sort select
UserSelectsSort ==
  \E value \in SortOptions :
    /\ Constructed
    /\ app' = Handled(SortChanged(app, value), "sort", NoDoc, "", value, TRUE)
    /\ UNCHANGED <<dsVars, nsVars, ctlVars, logVars, sortVars, ncVars>>

NextDocumentController ==
  \/ AppInitialize
  \/ AppFetchFails
  \/ AppFetchResolvesOk
  \/ AppJsonRejects
  \/ AppJsonResolves
  \/ UserAddsDocument
  \/ UserDeletesDocument
  \/ UserSelectsSort

SpecDocumentController == Init /\ [][NextDocumentController]_vars

\* --------------------------------------- NotificationsController actions
\* the arrow function the k-th initialize() call passes to subscribe(): each
\* call creates its own
ControllerListener(k) == IF k = 1 THEN "f" ELSE "g"

\* destroy(): call the stored closure, if any, and forget it
DestroyEffect(n, cbs) ==
  IF n.unsubscribe # "null"
    THEN [nc |-> [n EXCEPT !.called[n.unsubscribe] = @ + 1, !.unsubscribe = "null"],
          callbacks |-> UnsubscribeEffect(cbs, n.unsubscribe),
          ran |-> TRUE]
    ELSE [nc |-> n, callbacks |-> cbs, ran |-> FALSE]

\* seeded fault: initialize() subscribes before it awaits connect()
AfterConnect_SubscribesFirst(n, k, c) ==
  IF c.promise = "rejected"
    THEN [n EXCEPT !.initialize[k] = [state |-> "rejected", error |-> c.error],
                   !.unsubscribe = ControllerListener(k)]
    ELSE IF c.promise = "resolved"
      THEN [n EXCEPT !.initialize[k] = [state |-> "resolved", error |-> "none"],
                     !.unsubscribe = ControllerListener(k)]
      ELSE [n EXCEPT !.unsubscribe = ControllerListener(k)]

\* initialize() after `await this.service.connect()` of its k-th call, whose
\* promise is c: rejected with the error of connect(), or the listener
\* subscribed and the closure stored, or still suspended
AfterConnect(n, k, c) ==
  IF c.promise = "rejected"
    THEN [n EXCEPT !.initialize[k] = [state |-> "rejected", error |-> c.error]]
    ELSE IF c.promise = "resolved"
      THEN [n EXCEPT !.initialize[k] = [state |-> "resolved", error |-> "none"],
                     !.unsubscribe = ControllerListener(k)]
      ELSE n

\* the service after the step of initialize() that took the controller from n to m:
\* subscribe() has run if the stored closure changed
Subscribed(n, m) ==
  /\ callbacks' = IF m.unsubscribe # n.unsubscribe
                    THEN SetAdd(callbacks, m.unsubscribe) ELSE callbacks
  /\ handles' = IF m.unsubscribe # n.unsubscribe
                  THEN [handles EXCEPT ![m.unsubscribe].fresh = @ + 1] ELSE handles
  /\ order' = IF m.unsubscribe # n.unsubscribe
                THEN Append(order, m.unsubscribe) ELSE order

\* initialize(): connect() constructs the socket, or rejects at once when the
\* WebSocket constructor throws
ControllerInitialize ==
  \E constructorThrows \in BOOLEAN :
    LET eff == ConnectEffect(ws, conns, constructorThrows)
        k == Len(conns) + 1
        n == [nc EXCEPT !.initialize = Append(@, [state |-> "pending", error |-> "none"]),
                        !.last = [op |-> "initialize", stored |-> nc.unsubscribe]]
        m == AfterConnect(n, k, eff.conns[k])
    IN /\ Len(conns) < MaxConnects
       /\ Len(conns) < Cardinality(Listeners)
       /\ ws' = eff.ws
       /\ conns' = eff.conns
       /\ attempts' = attempts + eff.constructed
       /\ connectCalls' = connectCalls + 1
       /\ nc' = m
       /\ Subscribed(n, m)
       /\ nlast' = NoStep
       /\ UNCHANGED <<dsVars, ctlVars, logVars, sortVars, appVars>>

\* a socket event that may settle the promise of connect(): initialize()
\* continues if its promise was pending
ControllerSocketEvent(op, i, marks, eff) ==
  LET cs == [k \in 1..Len(eff.conns) |->
               IF k = i THEN marks @@ eff.conns[k] ELSE eff.conns[k]]
      n == [nc EXCEPT !.last = [op |-> op, stored |-> nc.unsubscribe]]
      m == IF conns[i].promise = "pending" THEN AfterConnect(n, i, cs[i]) ELSE n
  IN /\ conns' = cs
     /\ nc' = m
     /\ Subscribed(n, m)
     /\ nlast' = NoStep
     /\ UNCHANGED <<ws, attempts, connectCalls>>
     /\ UNCHANGED <<dsVars, ctlVars, logVars, sortVars, appVars>>

\* the open event: connect() resolves
ControllerSocketOpens ==
  \E i \in 1..Len(conns) :
    /\ conns[i].readyState = "connecting"
    /\ ControllerSocketEvent("open", i, [readyState |-> "open", opened |-> TRUE],
                             OnOpen(conns, i))

\* the error event, before or after the socket opened
ControllerSocketFails ==
  \E i \in 1..Len(conns) :
    /\ conns[i].readyState \in {"connecting", "open"}
    /\ ControllerSocketEvent("error", i, [readyState |-> "closed", failed |-> TRUE],
                             OnError(conns, i))

\* destroy()
ControllerDestroy ==
  LET eff == DestroyEffect(nc, callbacks)
      l == nc.unsubscribe
  IN /\ nc.destroys < MaxEvents
     /\ nc' = [eff.nc EXCEPT !.destroys = @ + 1,
                              !.last = [op |-> "destroy", stored |-> nc.unsubscribe]]
     /\ callbacks' = eff.callbacks
     /\ handles' = IF eff.ran
                     THEN [handles EXCEPT ![l].fresh = IF @ > 0 THEN @ - 1 ELSE 0,
                                          ![l].used = TRUE]
                     ELSE handles
     /\ order' = IF eff.ran THEN SelectSeq(order, LAMBDA x : x # l) ELSE order
     /\ nlast' = IF eff.ran
                   THEN [NoStep EXCEPT !.op = "unsubscribe",
                                       !.calledBefore = (nc.called[l] > 0),
                                       !.changed = (eff.callbacks # callbacks)]
                   ELSE NoStep
     /\ UNCHANGED <<ws, conns, attempts, connectCalls>>
     /\ UNCHANGED <<dsVars, ctlVars, logVars, sortVars, appVars>>

NextController ==
  \/ ControllerInitialize
  \/ ControllerSocketOpens
  \/ ControllerSocketFails
  \/ ControllerDestroy

SpecController == InitNotificationsOnly /\ [][NextController]_vars

\* ----------------------------------------------------------------- claims
\* isOffline()
IsOffline == usedCache

\* the JSON objects of a stored value that getFromCache() || [] would yield
ItemsOf(st) == IF st.kind = "array" THEN st.items ELSE <<>>

\* a JSON object whose isUserCreated is true
FlaggedTrue(obj) == Len(obj) = 4 /\ obj[3] = "isUserCreated" /\ obj[4] = "true"

\* the JSON text of an in-memory list, written out field by field
TextOf(docs) ==
  [i \in 1..Len(docs) |->
     IF "isUserCreated" \in DOMAIN docs[i]
       THEN <<"ID", docs[i].ID, "isUserCreated",
              IF docs[i].isUserCreated THEN "true" ELSE "false">>
       ELSE <<"ID", docs[i].ID>>]

\* U ++ R as JSON text: the flagged objects of the cache, then the remote list
ExpectedMerge(st, R) == SelectSeq(ItemsOf(st), FlaggedTrue) \o TextOf(R)

\* the JSON object addToCache appends for a document with this ID
StampedObject(id) == <<"ID", id, "isUserCreated", "true">>

HoldsUserCreated(items, id) == \E i \in 1..Len(items) : items[i] = StampedObject(id)

FetchDone == last.op = "getDocuments"
RemoteFailed == last.remote \in {"network", "http", "decode"}

\* C1: a getDocuments() whose remote retrieval succeeds returns U ++ R, U being
\* the cached entries with isUserCreated = true in storage order, and hands
\* exactly that array to setItem (which stores it when the write is accepted).
C1_MergeReturnsUserThenRemote ==
  (FetchDone /\ last.remote = "ok") =>
    /\ last.outcome = "returned"
    /\ TextOf(last.result) = ExpectedMerge(last.pre, last.R)
    /\ last.setItemCalled
    /\ last.setItemArg = ExpectedMerge(last.pre, last.R)
    /\ last.accept => storage = ArrayText(ExpectedMerge(last.pre, last.R))

C1_Witness ==
  /\ FetchDone /\ last.remote = "ok" /\ last.accept
  /\ Len(last.R) > 0
  /\ Len(last.result) > Len(last.R)
  /\ Len(last.result) < Len(last.pre.items) + Len(last.R)

\* C2: when the remote retrieval fails (network, status or decode) and the key
\* holds a list, getDocuments() returns exactly the persisted array and
\* isOffline() is true afterwards.
C2_FallbackReturnsPersisted ==
  (FetchDone /\ RemoteFailed /\ last.pre.kind = "array") =>
    /\ last.outcome = "returned"
    /\ TextOf(last.result) = last.pre.items
    /\ storage = last.pre
    /\ IsOffline

C2_Witness ==
  /\ FetchDone /\ last.remote = "decode" /\ last.pre.kind = "array"
  /\ Len(last.result) > 1
  /\ ~last.prevUsedCache

\* C3: when the remote retrieval fails and the key is absent, empty or
\* unparseable, getDocuments() rejects with the remote error and isOffline()
\* keeps the value it had before the call.
C3_NoCacheRethrows ==
  (FetchDone /\ RemoteFailed /\ last.pre.kind # "array") =>
    /\ last.outcome = "rejected"
    /\ last.error = last.remote
    /\ IsOffline = last.prevUsedCache
    /\ storage = last.pre

C3_Witness ==
  /\ FetchDone /\ last.remote = "http" /\ last.pre.kind = "malformed"
  /\ last.outcome = "rejected"

\* C4: isOffline() is false before any getDocuments() call has completed, true
\* when the most recently completed call substituted the cache and false when
\* it succeeded; addToCache and removeFromCache leave it unchanged.
C4_OfflineReflectsLastFetch ==
  /\ lastFetch = "none" => ~IsOffline
  /\ lastFetch = "fallback" => IsOffline
  /\ lastFetch = "success" => ~IsOffline
  /\ last.op \in {"addToCache", "removeFromCache"} => IsOffline = last.prevUsedCache

C4_Witness ==
  /\ lastFetch = "success" /\ FetchDone /\ last.prevUsedCache
  /\ ~IsOffline

\* C5: a document persisted by addToCache stays in the persisted list, flagged
\* isUserCreated = true, and is in the result of every getDocuments() that
\* returns, until removeFromCache is called with its ID.
C5_AddedPersistsUntilRemoved ==
  \A id \in live :
    /\ HoldsUserCreated(ItemsOf(storage), id)
    /\ (FetchDone /\ last.outcome = "returned") =>
         HoldsUserCreated(TextOf(last.result), id)

C5_Witness ==
  /\ live = UserIDs
  /\ FetchDone /\ last.remote = "ok" /\ last.accept /\ Len(last.R) > 0
  /\ lastFetch = "success"

\* C6: addToCache(d) sets d.isUserCreated = true and hands setItem the prior
\* cached list (empty if none) with d appended after all prior entries.
C6_AddAppendsStamped ==
  last.op = "addToCache" =>
    /\ last.arg = [ID |-> last.id, isUserCreated |-> TRUE]
    /\ last.setItemCalled
    /\ last.setItemArg = ItemsOf(last.pre) \o <<StampedObject(last.id)>>
    /\ last.accept => storage = ArrayText(ItemsOf(last.pre) \o <<StampedObject(last.id)>>)

C6_Witness ==
  /\ last.op = "addToCache" /\ last.accept
  /\ Len(last.pre.items) > 0
  /\ storage.items[1] = <<"ID", "b">>

\* C7: removeFromCache(id) hands setItem the prior cached list without the
\* entries whose ID is id, the others in their original order; with no match
\* the content is unchanged, and the write is still performed.
C7_RemoveFiltersById ==
  last.op = "removeFromCache" =>
    LET prior == ItemsOf(last.pre)
        kept == SelectSeq(prior, LAMBDA obj : obj[2] # last.id)
    IN /\ last.setItemCalled
       /\ last.setItemArg = kept
       /\ last.accept => storage = ArrayText(kept)
       /\ (\A i \in 1..Len(prior) : prior[i][2] # last.id) => last.setItemArg = prior

C7_Witness ==
  /\ last.op = "removeFromCache" /\ last.accept
  /\ Len(last.pre.items) - Len(storage.items) = 2
  /\ Len(storage.items) > 0

C7_WitnessNoMatch ==
  /\ last.op = "removeFromCache" /\ last.accept
  /\ last.pre.kind = "array" /\ Len(last.pre.items) > 0
  /\ storage = last.pre

IsWarning(entry) == entry[1] = "warn"

\* C8: addToCache and removeFromCache always return normally; a malformed
\* persisted value counts as the empty list, and a rejected write is logged as
\* a warning and leaves the persisted value as it was.
C8_CacheMutationsNeverThrow ==
  last.op \in {"addToCache", "removeFromCache"} =>
    /\ last.outcome = "returned"
    /\ last.error = "none"
    /\ last.pre.kind = "malformed" =>
         last.setItemArg = IF last.op = "addToCache" THEN <<StampedObject(last.id)>> ELSE <<>>
    /\ ~last.accept =>
         /\ storage = last.pre
         /\ \E i \in 1..Len(last.logs) : IsWarning(last.logs[i])
         /\ \A i \in 1..Len(last.logs) : IsWarning(last.logs[i])

C8_Witness ==
  /\ last.op = "addToCache" /\ ~last.accept
  /\ last.pre.kind = "malformed"
  /\ Len(last.logs) = 2

C8_WitnessRemove ==
  /\ last.op = "removeFromCache" /\ ~last.accept
  /\ Len(last.pre.items) > Len(last.setItemArg)

\* C9: when the remote retrieval succeeds but the cache write is rejected,
\* getDocuments() still returns U ++ R and isOffline() is false; it neither
\* rejects nor substitutes the cache.
C9_BestEffortPersistence ==
  (FetchDone /\ last.remote = "ok" /\ ~last.accept) =>
    /\ last.outcome = "returned"
    /\ TextOf(last.result) = ExpectedMerge(last.pre, last.R)
    /\ ~IsOffline
    /\ lastFetch = "success"
    /\ storage = last.pre

C9_Witness ==
  /\ FetchDone /\ last.remote = "ok" /\ ~last.accept
  /\ last.prevUsedCache
  /\ Len(last.R) > 0
  /\ TextOf(last.result) # last.pre.items

CountId(items, id) == Cardinality({k \in 1..Len(items) : items[k][2] = id})

Unflagged(obj) == ~FlaggedTrue(obj)

\* C11: the merge never deduplicates by ID: when a cached user-created
\* document and a document of the remote list share an ID, a successful
\* getDocuments() returns both (the user-created one first), with as many
\* entries of that ID as the two sources hold together, hands that list to
\* setItem and persists it when the write is accepted.
C11_MergeKeepsCollidingIds ==
  (FetchDone /\ last.remote = "ok") =>
    LET res == TextOf(last.result)
        U == SelectSeq(ItemsOf(last.pre), FlaggedTrue)
    IN \A id \in RemoteIDs \cup UserIDs :
         (CountId(U, id) > 0 /\ CountId(TextOf(last.R), id) > 0) =>
           /\ last.outcome = "returned"
           /\ CountId(res, id) = CountId(U, id) + CountId(TextOf(last.R), id)
           /\ \E i, j \in 1..Len(res) :
                i < j /\ res[i] = StampedObject(id) /\ res[j] = <<"ID", id>>
           /\ last.setItemArg = res
           /\ last.accept => ItemsOf(storage) = res

C11_Witness ==
  /\ FetchDone /\ last.remote = "ok" /\ last.accept
  /\ HoldsUserCreated(ItemsOf(last.pre), "a")
  /\ last.R = <<[ID |-> "a"]>>
  /\ CountId(ItemsOf(storage), "a") >= 2

\* C12: remote rows cached by an earlier fetch are not counted twice: a
\* successful getDocuments() whose write is accepted returns the rows of the
\* remote response exactly as that response holds them, every other row is a
\* stamped user-created row that the cache already held, and repeating the
\* fetch with the same remote list returns the same list and leaves the same
\* cache.
C12_RemoteRowsNotDoubleCounted ==
  (FetchDone /\ last.remote = "ok" /\ last.accept) =>
    LET res == TextOf(last.result)
    IN /\ SelectSeq(res, Unflagged) = TextOf(last.R)
       /\ SelectSeq(res, FlaggedTrue) = SelectSeq(ItemsOf(last.pre), FlaggedTrue)
       /\ \A k \in 1..Len(res) : FlaggedTrue(res[k]) => res[k] = StampedObject(res[k][2])
       /\ \A again \in BOOLEAN :
            LET eff == GetDocumentsMerge(storage, usedCache, last.R, again)
            IN /\ eff.outcome = "returned"
               /\ eff.result = last.result
               /\ eff.storage = storage

\* a repeated fetch: the cache already held exactly what this call returns,
\* remote rows of the earlier fetch included
C12_Witness ==
  /\ FetchDone /\ last.remote = "ok" /\ last.accept
  /\ Len(last.R) > 0
  /\ last.pre = ArrayText(TextOf(last.result))
  /\ \E k \in 1..Len(last.pre.items) : last.pre.items[k] = <<"ID", last.R[1].ID>>
  /\ \E k \in 1..Len(last.pre.items) : FlaggedTrue(last.pre.items[k])
  /\ storage = last.pre


\* C33: a persisted empty list is a cache: when removeFromCache has left the
\* key holding an empty array, a getDocuments() whose remote retrieval fails
\* returns the empty list and isOffline() is true; it rejects exactly when
\* the key is absent, holds the empty string or holds unparseable text.
C33_EmptyListCountsAsCache ==
  /\ []((FetchDone /\ RemoteFailed) =>
          /\ last.outcome = "rejected" <=> last.pre.kind \in {"absent", "empty", "malformed"}
          /\ last.pre = ArrayText(<<>>) =>
               /\ last.outcome = "returned"
               /\ last.result = <<>>
               /\ IsOffline)
  /\ []((last.op = "removeFromCache" /\ last.accept) =>
          /\ storage.kind = "array"
          /\ (\A k \in 1..Len(last.pre.items) : last.pre.items[k][2] = last.id) =>
               storage = ArrayText(<<>>))
  /\ [][(/\ last.op = "removeFromCache" /\ storage = ArrayText(<<>>)
         /\ last'.op = "getDocuments" /\ last'.remote \in {"network", "http", "decode"}) =>
           /\ last'.outcome = "returned"
           /\ last'.result = <<>>
           /\ usedCache']_vars

\* the fetch failed with an empty list under the key: an empty fallback
C33_Witness ==
  /\ FetchDone /\ RemoteFailed
  /\ last.pre = ArrayText(<<>>)
  /\ last.outcome = "returned" /\ last.result = <<>>
  /\ IsOffline /\ ~last.prevUsedCache

\* removeFromCache has just emptied the cache while a fetch is pending
C33_WitnessEmptied ==
  /\ last.op = "removeFromCache" /\ last.accept
  /\ Len(last.pre.items) = 1
  /\ storage = ArrayText(<<>>)
  /\ awaitingFetch > 0

\* ------------------------------------------------ notification claims
MessageParsed == nlast.op = "message" /\ nlast.parsed

\* the listeners of a list that no thrower precedes: those up to and
\* including the first one that throws
UpToFirstThrower(list, throwers) ==
  SelectSeq(list, LAMBDA x :
    \A k \in 1..Len(list) :
      (list[k] \in throwers /\ list[k] # x) =>
        \E j \in 1..(k - 1) : list[j] = x)

C13_WitnessUnsubscribed ==
  /\ MessageParsed /\ nlast.throwers = {}
  /\ nlast.invoked = <<"g">>
  /\ handles["f"].used /\ handles["g"].fresh > 0

C14_RepeatedUnsubscribeIsNoOp ==
  (nlast.op = "unsubscribe" /\ nlast.calledBefore) => ~nlast.changed

\* C15: the promise of connect() is resolved once the socket has reported
\* open, rejected with the socket's error when the error event came before
\* any open event, rejected with the constructor's error when new WebSocket
\* threw, and pending otherwise; every WebSocket is constructed by a connect()
\* call, one per call (no retry).
C15_ConnectSettlesOnOpenOrError ==
  /\ attempts = connectCalls
  /\ Len(conns) = connectCalls
  /\ \A i \in 1..Len(conns) :
       LET c == conns[i]
       IN CASE c.readyState = "none" -> c.promise = "rejected" /\ c.error = "constructor"
            [] c.opened -> c.promise = "resolved"
            [] c.failed -> c.promise = "rejected" /\ c.error = "error event"
            [] OTHER -> c.promise = "pending"

C15_Witness ==
  \E i, j \in 1..Len(conns) :
    /\ conns[i].promise = "rejected" /\ conns[i].failed /\ ~conns[i].opened
    /\ conns[j].promise = "resolved" /\ conns[j].failed

\* C16: a frame that is not JSON is dropped: no listener is called, the
\* SyntaxError is logged and does not escape the handler, the socket and the
\* service's reference to it stay as they were, and a frame that arrives next
\* is parsed and broadcast to the registered listeners.
C16_UnparseableFrameIsDropped ==
  /\ [](nlast.op = "message" /\ ~nlast.parsed =>
          /\ nlast.invoked = <<>>
          /\ nlast.logs = <<ErrorEntry("SyntaxError")>>
          /\ nlast.caught /\ ~nlast.escaped
          /\ conns[nlast.conn].readyState = "open"
          /\ ws = nlast.preWs)
  /\ [][/\ nlast'.op = "message" /\ ~nlast'.parsed => conns' = conns /\ ws' = ws
        /\ (nlast.op = "message" /\ ~nlast.parsed /\ nlast'.op = "message" /\ nlast'.parsed) =>
             nlast'.invoked = UpToFirstThrower(order, nlast'.throwers)]_vars

C16_Witness ==
  /\ nlast.op = "message" /\ ~nlast.parsed
  /\ Len(callbacks) = 2

\* C17: when a listener throws during a broadcast the handler catches and
\* logs the error (nothing escapes to the socket), the listeners registered
\* before the thrower have been called, those registered after it are not
\* called for this event, and the next frame is processed as usual.
C17_ThrowingListenerEndsThePass ==
  /\ [](MessageParsed /\ nlast.throwers # {} =>
          /\ nlast.caught /\ ~nlast.escaped
          /\ nlast.logs = <<ErrorEntry("listener error")>>
          /\ \E k \in 1..Len(order) :
               /\ order[k] \in nlast.throwers
               /\ nlast.invoked = SubSeq(order, 1, k)
               /\ \A j \in 1..(k - 1) : order[j] \notin nlast.throwers
          /\ conns[nlast.conn].readyState = "open")
  /\ [][(MessageParsed /\ nlast.throwers # {} /\ nlast'.op = "message"
          /\ nlast'.parsed /\ nlast'.throwers = {}) =>
            nlast'.invoked = order /\ nlast'.logs = <<>>]_vars

\* the first of two listeners throws: the second is not called
C17_Witness ==
  /\ MessageParsed /\ Len(order) = 2
  /\ nlast.throwers = {order[1]}
  /\ nlast.invoked = <<order[1]>>

\* the second of two listeners throws: the first has been called
C17_WitnessEarlierInvoked ==
  /\ MessageParsed /\ Len(order) = 2
  /\ nlast.throwers = {order[2]}
  /\ nlast.invoked = order

\* C18: disconnect() with a socket in this.ws calls close() on that socket and
\* on no other, logs the manual disconnect once and clears this.ws;
\* disconnect() with this.ws null (never connected, or disconnected before)
\* closes nothing and logs nothing.
C18_DisconnectClosesOnce ==
  nlast.op = "disconnect" =>
    /\ ws = 0
    /\ IF nlast.preWs # 0
         THEN /\ nlast.closeCalled
              /\ nlast.logs = <<InfoManual>>
              /\ nlast.touched \subseteq {nlast.preWs}
              /\ conns[nlast.preWs].readyState \in {"closing", "closed"}
         ELSE /\ ~nlast.closeCalled
              /\ nlast.logs = <<>>
              /\ nlast.touched = {}

C18_Witness ==
  /\ nlast.op = "disconnect" /\ nlast.preWs # 0
  /\ nlast.preState = "open"
  /\ conns[nlast.preWs].readyState = "closing"

\* a second disconnect(): a socket is closing from the first one
C18_WitnessSecond ==
  /\ nlast.op = "disconnect" /\ nlast.preWs = 0
  /\ \E i \in 1..Len(conns) : conns[i].readyState = "closing"

\* the channel state of a connect() call
Phase(c) ==
  CASE c.readyState = "none" -> "Idle"
    [] c.readyState = "connecting" -> "Connecting"
    [] c.readyState = "open" -> "Open"
    [] OTHER -> "Closed"

\* every socket keeps or changes its state along these edges only, and a
\* socket comes into being only as Connecting, in a connect() call
ChannelMoves(edges) ==
  /\ Len(conns') >= Len(conns)
  /\ \A i \in 1..Len(conns) :
       \/ Phase(conns'[i]) = Phase(conns[i])
       \/ <<Phase(conns[i]), Phase(conns'[i])>> \in edges
  /\ \A i \in (Len(conns) + 1)..Len(conns') :
       /\ Phase(conns'[i]) \in {"Idle", "Connecting"}
       /\ connectCalls' = connectCalls + 1
       /\ Len(conns') = Len(conns) + 1
  /\ attempts' - attempts = connectCalls' - connectCalls

\* C19 (as amended): a channel follows Idle -> Connecting -> Open -> Closed,
\* and also Connecting -> Closed when it fails to open or is disconnected
\* before it opens; there are no other transitions, a Closed channel stays
\* Closed, and a socket is constructed only by a connect() call.
C19_ChannelStateMachine ==
  [][ChannelMoves({<<"Connecting", "Open">>, <<"Open", "Closed">>,
                   <<"Connecting", "Closed">>})]_vars

C19_Witness ==
  \E i, j \in 1..Len(conns) :
    /\ i < j
    /\ conns[i].readyState = "closed" /\ conns[i].closeFired /\ ~conns[i].opened
    /\ conns[j].readyState = "closed" /\ conns[j].closeFired /\ conns[j].opened

\* C19 (as claimed): Idle -> Connecting -> Open -> Closed with no other
\* transitions.
C19_OnlyThroughOpen ==
  [][ChannelMoves({<<"Connecting", "Open">>, <<"Open", "Closed">>})]_vars

\* C20: the events delivered to the controller's listener produce, each in its
\* turn, one toast and one log entry carrying UserName, " created ", and the
\* DocumentTitle in double quotes: the toasts in delivery order, the log newest
\* first (while it is below its cap), the badge counting the events.
C20_OneToastAndOneLogEntryPerEvent ==
  LET n == Len(events)
      Expected(e) == e.UserName \o " created \"" \o e.DocumentTitle \o "\""
  IN /\ Len(shown) = n
     /\ toast.count = n
     /\ \A k \in 1..n : shown[k] = Expected(events[k])
     /\ n > 0 => toast.text = Expected(events[n]) /\ toast.duration = CONTROLLER_DURATION
     /\ n <= MAX_NOTIFICATIONS =>
          /\ Len(notifications) = n
          /\ \A k \in 1..n :
               notifications[n + 1 - k] =
                 [title |-> "New Document", message |-> Expected(events[k])]

C20_Witness ==
  /\ Len(events) = 3
  /\ events[1] = [UserName |-> "Ann", DocumentTitle |-> "IPA"]
  /\ events[2] = [UserName |-> "", DocumentTitle |-> ""]
  /\ events[3] = [UserName |-> "Ann", DocumentTitle |-> ""]
  /\ notifications[1].message = "Ann created \"\""
  /\ notifications[2].message = " created \"\""
  /\ shown[1] = "Ann created \"IPA\""


Registered == {callbacks[k] : k \in 1..Len(callbacks)}

\* C36: the registered listeners do not depend on the connection: subscribe
\* and unsubscribe leave the sockets alone, connect(), disconnect() and the
\* socket events leave the listeners alone, and a frame of any open socket,
\* one opened by a connect() after a disconnect() included, goes to the
\* listeners registered at that moment.
C36_ListenersOutliveConnections ==
  /\ [](MessageParsed => nlast.invoked = UpToFirstThrower(callbacks, nlast.throwers))
  /\ [][/\ (conns' # conns \/ ws' # ws \/ connectCalls' # connectCalls
             \/ nlast'.op = "disconnect") => callbacks' = callbacks
        /\ callbacks' # callbacks => conns' = conns /\ ws' = ws]_vars

\* a frame of the second socket, opened after the first was disconnected,
\* reaches both listeners
C36_Witness ==
  /\ MessageParsed /\ nlast.throwers = {}
  /\ nlast.conn = 2
  /\ conns[1].readyState = "closing"
  /\ Len(nlast.invoked) = 2

\* two listeners registered with no connect() call so far
C36_WitnessBeforeConnect ==
  /\ connectCalls = 0
  /\ Len(callbacks) = 2

\* disconnect() has just closed an open socket; both listeners are still there
C36_WitnessAfterDisconnect ==
  /\ nlast.op = "disconnect" /\ nlast.closeCalled
  /\ nlast.preState = "open"
  /\ Len(callbacks) = 2

\* C37: subscribing a listener that is registered leaves the set as it is:
\* no listener is registered twice, a listener is called once per event, and
\* one call of either closure returned for it removes it.
C37_SubscriptionsAreASet ==
  /\ [](/\ \A i, j \in 1..Len(callbacks) : callbacks[i] = callbacks[j] => i = j
        /\ MessageParsed =>
             \A i, j \in 1..Len(nlast.invoked) : nlast.invoked[i] = nlast.invoked[j] => i = j)
  /\ [][\A l \in Listeners :
          handles'[l].fresh < handles[l].fresh => l \notin {callbacks'[k] : k \in 1..Len(callbacks')}]_vars

\* f has been subscribed twice and never unsubscribed: one call for the event
C37_Witness ==
  /\ MessageParsed /\ nlast.throwers = {}
  /\ handles["f"].fresh = 2 /\ ~handles["f"].used
  /\ nlast.invoked = <<"f">>

\* one of the two closures returned for f has just run: f is gone
C37_WitnessUnsubscribed ==
  /\ nlast.op = "unsubscribe" /\ ~nlast.calledBefore /\ nlast.changed
  /\ handles["f"].fresh = 1
  /\ "f" \notin Registered

\* C38: connect() with a socket in this.ws that is connecting or open puts the
\* new socket in its place and leaves the old one as it is; the frames of the
\* old socket still reach the listeners, and disconnect() closes the socket
\* created last and no other.
C38_ConnectReplacesWithoutClosing ==
  /\ [](/\ ws # 0 =>
             /\ conns[ws].readyState # "none"
             /\ \A i \in (ws + 1)..Len(conns) : conns[i].readyState = "none"
        /\ MessageParsed => nlast.invoked = UpToFirstThrower(callbacks, nlast.throwers)
        /\ nlast.op = "disconnect" => nlast.touched \subseteq {nlast.preWs})
  /\ [][connectCalls' # connectCalls =>
          /\ \A i \in 1..Len(conns) : conns'[i] = conns[i]
          /\ conns'[Len(conns')].readyState # "none" => ws' = Len(conns')]_vars

\* a frame of the first socket reaches a listener while the second is tracked
C38_Witness ==
  /\ MessageParsed
  /\ nlast.conn = 1 /\ nlast.preWs = 2
  /\ conns[2].readyState \in {"connecting", "open"}
  /\ nlast.invoked # <<>>

\* disconnect() after the second connect(): the first socket stays open
C38_WitnessDisconnect ==
  /\ nlast.op = "disconnect" /\ nlast.preWs = 2
  /\ nlast.touched = {2}
  /\ conns[1].readyState = "open"
  /\ conns[2].readyState = "closing"

\* ------------------------------------------------------------ log claims
\* the last n elements of a sequence, newest first
NewestFirst(seq, n) == [k \in 1..n |-> seq[Len(seq) + 1 - k]]

\* C21: after any sequence of addNotification calls the log holds at most
\* MAX_NOTIFICATIONS entries, newest first: exactly the most recent
\* min(n, MAX_NOTIFICATIONS) of the n entries added, the oldest being evicted
\* beyond the cap.
C21_LogKeepsMostRecent ==
  LET n == Len(added)
      kept == IF n < MAX_NOTIFICATIONS THEN n ELSE MAX_NOTIFICATIONS
  IN /\ Len(notifications) <= MAX_NOTIFICATIONS
     /\ notifications = NewestFirst(added, kept)

C21_Witness ==
  /\ Len(added) = MAX_NOTIFICATIONS + 2
  /\ Len(notifications) = MAX_NOTIFICATIONS
  /\ notifications[1].message = "Second message"
  /\ notifications[2].message = "First message"
  /\ notifications[MAX_NOTIFICATIONS].message = "Message 3"


\* ----------------------------------------------------------- start claims
LogsOf(scope) == SelectSeq(app.logs, LAMBDA l : l.scope = scope)

\* C22: when notificationsController.initialize() fails because connect()
\* rejects, AppInitializer.initialize() logs a warning only and resolves; when
\* the DocumentController fails to initialize, the error is logged as an
\* error and initialize() rejects with that same error.
C22_NotificationsFailureSwallowed ==
  /\ (app.conn # 0 /\ conns[app.conn].promise = "rejected") =>
       /\ app.pc = "done"
       /\ app.settled = "resolved"
       /\ LogsOf("AppInitializer") =
            <<AppLog("warn", "AppInitializer", "Failed to initialize notifications")>>
  /\ (app.pc = "done" /\ app.thrown = "documents") =>
       /\ app.settled = "rejected"
       /\ app.error = "element not found"
       /\ LogsOf("AppInitializer") = <<AppLog("error", "AppInitializer", app.error)>>
  /\ app.settled # "pending" <=> app.pc = "done"

\* the connection failed after the documents were fetched and rendered
C22_Witness ==
  /\ app.pc = "done"
  /\ app.conn # 0
  /\ conns[app.conn].failed
  /\ conns[app.conn].promise = "rejected"
  /\ app.settled = "resolved"
  /\ app.renders # <<>>

\* the DocumentController could not be constructed
C22_WitnessDocuments ==
  /\ app.pc = "done"
  /\ app.thrown = "documents"
  /\ app.settled = "rejected"

\* C23: DocumentController.initialize() never rejects because the fetch
\* failed: when getDocuments() returns, the documents are rendered and the
\* offline banner is shown exactly when isOffline() is true; when it throws,
\* the error is logged, the banner is shown and nothing is rendered.
C23_InitializeSurvivesFetchFailure ==
  /\ app.documentsInit # "rejected"
  /\ lastFetch # "none" => app.documentsInit = "resolved"
  /\ lastFetch \in {"success", "fallback"} =>
       /\ app.renders = <<app.documents>>
       /\ app.banner = IsOffline
       /\ LogsOf("DocumentController") = <<>>
  /\ lastFetch = "rejected" =>
       /\ app.renders = <<>>
       /\ app.banner
       /\ Len(LogsOf("DocumentController")) = 1
       /\ LogsOf("DocumentController")[1].level = "error"
       /\ LogsOf("DocumentController")[1].what \in {"network", "http", "decode", "storage"}

\* the fetch failed and getDocuments() returned the cached documents
C23_Witness ==
  /\ lastFetch = "fallback"
  /\ app.documentsInit = "resolved"
  /\ app.banner
  /\ app.renders = <<app.documents>>
  /\ app.documents # <<>>

\* the fetch failed with no cache to fall back on
C23_WitnessThrows ==
  /\ lastFetch = "rejected"
  /\ app.documentsInit = "resolved"
  /\ app.banner
  /\ app.renders = <<>>

\* the fetch succeeded: documents rendered, banner hidden
C23_WitnessOnline ==
  /\ lastFetch = "success"
  /\ app.documentsInit = "resolved"
  /\ ~app.banner
  /\ app.renders = <<app.documents>>
  /\ app.documents # <<>>

\* C35: initialize() starts the view handler, the DocumentController and the
\* notifications in this order, each after the one before has finished:
\* connect() is not called while the catalog load is pending, and not at all
\* when the DocumentController failed or its initialize() has not settled.
C35_StartupOrder ==
  /\ [](/\ \E n \in 0..3 : app.started = SubSeq(<<"view", "documents", "notifications">>, 1, n)
        /\ connectCalls > 0 =>
             /\ app.documentsInit = "resolved"
             /\ lastFetch # "none"
             /\ awaitingFetch = 0 /\ awaitingJson = 0
        /\ (app.documentsInit = "pending" \/ app.thrown \in {"view", "documents"}) =>
             /\ connectCalls = 0
             /\ conns = <<>>
             /\ "notifications" \notin {app.started[k] : k \in 1..Len(app.started)})
  /\ [][connectCalls' # connectCalls =>
          /\ app.documentsInit = "resolved"
          /\ app.pc = "documentsReady"
          /\ connectCalls = 0]_vars

\* connect() has been called after a catalog load that failed with no cache
C35_Witness ==
  /\ connectCalls = 1
  /\ lastFetch = "rejected"
  /\ app.started = <<"view", "documents", "notifications">>
  /\ app.pc = "connect"

\* the DocumentController could not be constructed: no connect()
C35_WitnessFailed ==
  /\ app.pc = "done" /\ app.thrown = "documents"
  /\ app.started = <<"view">>
  /\ connectCalls = 0

\* the catalog load is pending at response.json(): no connect() so far
C35_WitnessPending ==
  /\ app.pc = "json" /\ app.documentsInit = "pending"
  /\ connectCalls = 0

\* C31: NotificationsController.initialize() subscribes its listener only
\* once connect() has resolved; when connect() rejects, initialize() rejects
\* with the same error and no listener is registered. destroy() calls the
\* stored closure once and forgets it; with no closure stored (before
\* initialize, after a failed initialize, after a destroy) it changes nothing.
C31_ListenerFollowsConnect ==
  /\ [](/\ Len(nc.initialize) = Len(conns)
        /\ \A k \in 1..Len(conns) :
             LET l == ControllerListener(k)
                 c == conns[k]
                 i == nc.initialize[k]
             IN /\ i.state = c.promise
                /\ i.error = (IF c.promise = "rejected" THEN c.error ELSE "none")
                /\ c.promise = "rejected" => c.error \in {"constructor", "error event"}
                /\ c.promise # "resolved" =>
                     /\ l \notin {callbacks[x] : x \in 1..Len(callbacks)}
                     /\ handles[l] = NoHandles[l]
                     /\ nc.unsubscribe # l
                     /\ nc.called[l] = 0
                /\ nc.called[l] <= 1
        /\ nc.unsubscribe # "null" =>
             /\ nc.called[nc.unsubscribe] = 0
             /\ nc.unsubscribe \in {callbacks[x] : x \in 1..Len(callbacks)})
  /\ [][/\ (nc'.destroys # nc.destroys) =>
            (/\ nc'.unsubscribe = "null"
             /\ nc'.initialize = nc.initialize
             /\ <<ws, conns>>' = <<ws, conns>>
             /\ IF nc.unsubscribe = "null"
                  THEN /\ <<callbacks, handles>>' = <<callbacks, handles>>
                       /\ nc'.called = nc.called
                  ELSE /\ callbacks' = SetDelete(callbacks, nc.unsubscribe)
                       /\ nc'.called = [nc.called EXCEPT ![nc.unsubscribe] = 1])
        /\ (callbacks' \notin {callbacks, SetDelete(callbacks, nc.unsubscribe)}) =>
            (\E k \in 1..Len(conns') :
               /\ k > Len(conns) \/ conns[k].promise = "pending"
               /\ conns'[k].promise = "resolved"
               /\ callbacks' = Append(callbacks, ControllerListener(k))
               /\ nc'.unsubscribe = ControllerListener(k))]_vars

\* connect() rejected on the error event, so did initialize(), nothing was
\* subscribed, and the destroy() that followed did nothing
C31_Witness ==
  /\ nc.initialize = <<[state |-> "rejected", error |-> "error event"]>>
  /\ nc.last.op = "destroy"
  /\ callbacks = <<>> /\ handles = NoHandles

\* destroy() has called the closure stored by a resolved initialize()
C31_WitnessDestroyed ==
  /\ nc.last = [op |-> "destroy", stored |-> "f"]
  /\ nc.called["f"] = 1 /\ callbacks = <<>>

\* a second destroy()
C31_WitnessSecond ==
  /\ nc.last = [op |-> "destroy", stored |-> "null"]
  /\ nc.destroys = 2 /\ nc.called["f"] = 1

\* destroy() before any initialize()
C31_WitnessBefore ==
  /\ nc.last.op = "destroy" /\ nc.initialize = <<>>

\* the listener was subscribed on the open event of the socket
C31_WitnessSubscribed ==
  /\ nc.last.op = "open" /\ nc.unsubscribe = "f"
  /\ callbacks = <<"f">> /\ conns[1].promise = "resolved"

\* the list handed to renderDocuments by the latest render
LastRender == app.renders[Len(app.renders)]

\* the place of a document in the order of a sort field
Rank(field, id) ==
  CASE field = "name"    -> (IF id = "b" THEN 1 ELSE IF id = "u" THEN 2 ELSE 3)
    [] field = "version" -> (IF id = "u" THEN 1 ELSE IF id = "a" THEN 2 ELSE 3)
    [] field = "created" -> (IF id = "b" THEN 1 ELSE IF id = "a" THEN 2 ELSE 3)
    [] OTHER -> 0

\* list holds the documents of docs, each as often, in the order of the
\* field; it is docs itself when no field is selected
InOrderOf(list, docs, field) ==
  /\ Len(list) = Len(docs)
  /\ \A d \in {docs[k] : k \in 1..Len(docs)} \cup {list[k] : k \in 1..Len(list)} :
       Cardinality({k \in 1..Len(list) : list[k] = d})
         = Cardinality({k \in 1..Len(docs) : docs[k] = d})
  /\ \A i, j \in 1..Len(list) :
       i < j => Rank(field, list[i].ID) <= Rank(field, list[j].ID)
  /\ field = "" => list = docs

\* the IDs stored under the cache key
CachedIds(st) ==
  IF st.kind = "array" THEN {st.items[k][2] : k \in 1..Len(st.items)} ELSE {}

\* C32: the controller's list and what is rendered stay consistent: an add
\* appends the document and hands it to addToCache, a delete removes every
\* entry with the id and hands the id to removeFromCache, a selection stores
\* the field; each of them renders once, the list in the order of the field
\* selected last.
C32_ListAndRenderConsistent ==
  /\ [](/\ app.currentSort \in SortOptions
        /\ app.renders # <<>> =>
             /\ InOrderOf(LastRender, app.documents, app.currentSort)
             /\ Len(app.cards) = Len(app.documents))
  /\ [][(app'.events # app.events) =>
          LET e == app'.event
          IN /\ app'.renders = Append(app.renders, app'.renders[Len(app'.renders)])
             /\ InOrderOf(app'.renders[Len(app'.renders)], app'.documents, app'.currentSort)
             /\ (e.op = "add") =>
                  (/\ app'.documents = Append(app.documents, Stamp(e.document))
                   /\ app'.currentSort = app.currentSort
                   /\ storage' = AddToCacheEffect(storage, usedCache, e.document, e.accept).storage
                   /\ e.accept => e.id \in CachedIds(storage'))
             /\ (e.op = "delete") =>
                  (/\ app'.documents = SelectSeq(app.documents, LAMBDA d : d.ID # e.id)
                   /\ \A k \in 1..Len(app'.documents) : app'.documents[k].ID # e.id
                   /\ app'.currentSort = app.currentSort
                   /\ storage' = RemoveFromCacheEffect(storage, usedCache, e.id, e.accept).storage
                   /\ e.accept => (storage'.kind = "array" /\ e.id \notin CachedIds(storage')))
             /\ (e.op = "sort") =>
                  (/\ app'.currentSort = e.field
                   /\ app'.documents = app.documents
                   /\ storage' = storage)]_vars

\* a document was added after the version order was selected, and the
\* render shows the list in another order than the list holds it
C32_Witness ==
  /\ app.event.op = "add" /\ app.events = 2
  /\ app.currentSort = "version"
  /\ Len(app.documents) >= 2
  /\ LastRender # app.documents

\* a delete removed two entries with the same id
C32_WitnessDelete ==
  /\ app.event.op = "delete"
  /\ Len(app.renders) >= 2
  /\ Len(LastRender) + 2 = Len(app.renders[Len(app.renders) - 1])

\* a selection changed the order of the rendered list
C32_WitnessSort ==
  /\ app.event.op = "sort" /\ app.event.field = "created"
  /\ Len(app.renders) >= 2
  /\ LastRender # app.renders[Len(app.renders) - 1]

\* C34: the entry addDocument appends carries isUserCreated = true, whatever
\* the argument held and whether or not the cache took it, and its card is
\* given the delete callback; in every render the cards with the callback
\* are those of the documents whose flag is true.
C34_AddedDocumentIsDeletable ==
  /\ [](/\ Len(app.cards) = (IF app.renders = <<>> THEN 0 ELSE Len(LastRender))
        /\ \A k \in 1..Len(app.cards) :
             /\ app.cards[k].ID = LastRender[k].ID
             /\ app.cards[k].onDelete
                  = ("isUserCreated" \in DOMAIN LastRender[k] /\ LastRender[k].isUserCreated = TRUE)
        /\ app.renders # <<>> =>
             \A i \in 1..Len(app.documents) :
               \E k \in 1..Len(app.cards) :
                 /\ app.cards[k].ID = app.documents[i].ID
                 /\ LastRender[k] = app.documents[i]
                 /\ app.cards[k].onDelete
                      = ("isUserCreated" \in DOMAIN app.documents[i]
                           /\ app.documents[i].isUserCreated = TRUE))
  /\ [][(app'.events # app.events /\ app'.event.op = "add") =>
          LET d == app'.documents[Len(app'.documents)]
          IN /\ d = [ID |-> app'.event.document.ID, isUserCreated |-> TRUE]
             /\ \E k \in 1..Len(app'.cards) :
                  /\ app'.renders[Len(app'.renders)][k] = d
                  /\ app'.cards[k] = [ID |-> d.ID, onDelete |-> TRUE]]_vars

\* a document that came with isUserCreated = false was added while the
\* cache refused the write: its card has the callback, a remote one has not
C34_Witness ==
  /\ app.event.op = "add" /\ ~app.event.accept
  /\ app.event.document = [ID |-> "u", isUserCreated |-> FALSE]
  /\ \E k \in 1..Len(app.cards) : app.cards[k] = [ID |-> "u", onDelete |-> TRUE]
  /\ \E k \in 1..Len(app.cards) : ~app.cards[k].onDelete

\* a document added while initialize() was suspended is rendered with the
\* callback after the fetched list replaced the controller's list
C34_WitnessReloaded ==
  /\ app.event.op = "add" /\ app.events = 1
  /\ lastFetch = "success" /\ Len(app.renders) = 2
  /\ \E k \in 1..Len(app.cards) : app.cards[k] = [ID |-> app.event.id, onDelete |-> TRUE]
  /\ \E k \in 1..Len(app.cards) : ~app.cards[k].onDelete

\* ------------------------------------------------------- sorting claims
\* the integers a version string stands for, segment by segment
SegmentsOf(v) ==
  CASE v = <<"1", ".", "0", ".", "0">> -> <<1, 0, 0>>
    [] v = <<"1", ".", "0", ".", "2">> -> <<1, 0, 2>>
    [] v = <<"1", ".", "0", ".", "1", "0">> -> <<1, 0, 10>>
    [] v = <<"2", ".", "0">> -> <<2, 0>>
    [] v = <<"1", ".", "9", ".", "9">> -> <<1, 9, 9>>
    [] v = <<"i", "n", "v", "a", "l", "i", "d">> -> <<0>>
    [] v = <<>> -> <<0>>
    [] v = <<"0", ".", "0", ".", "0">> -> <<0, 0, 0>>
    [] v = <<"i", "n", "v", "a", "l", "i", "d", ".", "v", "e", "r", "s", "i", "o", "n">> -> <<0, 0>>
    [] v = <<"1", ".", "2", "b">> -> <<1, 2>>
    [] v = <<"1", ".", ".", "1">> -> <<1, 0, 1>>
    [] v = <<"1", ".", "0">> -> <<1, 0>>

\* the signed difference at the first position where two versions differ,
\* a missing position counting as 0
ExpectedCompare(a, b) ==
  LET pa == SegmentsOf(a)
      pb == SegmentsOf(b)
      At(p, i) == IF i <= Len(p) THEN p[i] ELSE 0
      n == IF Len(pa) > Len(pb) THEN Len(pa) ELSE Len(pb)
  IN IF \A i \in 1..n : At(pa, i) = At(pb, i) THEN 0
     ELSE LET i == CHOOSE k \in 1..n :
                     At(pa, k) # At(pb, k) /\ \A j \in 1..(k - 1) : At(pa, j) = At(pb, j)
          IN At(pa, i) - At(pb, i)

\* the versions with no numeric segment at all
ZeroLike == {<<>>, <<"i", "n", "v", "a", "l", "i", "d">>,
             <<"i", "n", "v", "a", "l", "i", "d", ".", "v", "e", "r", "s", "i", "o", "n">>}

\* a title with its letters in lower case, as alphabet positions
Fold(title) ==
  [k \in 1..Len(title) |->
     CASE title[k] \in {"a", "A"} -> 1 [] title[k] \in {"b", "B"} -> 2
       [] title[k] \in {"e", "E"} -> 5 [] title[k] \in {"h", "H"} -> 8
       [] title[k] \in {"l", "L"} -> 12 [] title[k] \in {"p", "P"} -> 16
       [] title[k] \in {"r", "R"} -> 18 [] title[k] \in {"t", "T"} -> 20
       [] title[k] \in {"z", "Z"} -> 26]

\* dictionary order on folded titles
FoldLeq(x, y) ==
  LET fx == Fold(x)
      fy == Fold(y)
  IN \/ /\ Len(fx) <= Len(fy)
        /\ \A k \in 1..Len(fx) : fx[k] = fy[k]
     \/ \E k \in 1..Len(fx) :
          /\ k <= Len(fy)
          /\ fx[k] < fy[k]
          /\ \A j \in 1..(k - 1) : fx[j] = fy[j]

\* the result holds the documents of the input, each once
Reordering(input, result) ==
  /\ Len(result) = Len(input)
  /\ {result[k] : k \in 1..Len(result)} = {input[k] : k \in 1..Len(input)}

OfTitle(doc, title) == doc.Title = title

C24_WitnessEmpty ==
  /\ sorted.called
  /\ sorted.input = <<>>
  /\ sorted.result = <<>>
  /\ ~sorted.aliased

\* C25: with the field "" or any value other than "name", "version" and
\* "created" the result equals the input, in the input's order.
C25_UnknownFieldKeepsOrder ==
  (sorted.called /\ sorted.sortBy \notin {"name", "version", "created"}) =>
    sorted.result = sorted.input

\* an unrecognized field on an input that no field would leave in place
C25_Witness ==
  /\ sorted.called
  /\ sorted.sortBy = "invalid"
  /\ sorted.result = sorted.input
  /\ \A f \in {"name", "version", "created"} : ArraySort(f, sorted.input) # sorted.input

\* C26: with the field "version" the result is the input in ascending
\* version order: compareVersions of every adjacent pair is <= 0.
C26_VersionAscending ==
  (sorted.called /\ sorted.sortBy = "version") =>
    /\ Reordering(sorted.input, sorted.result)
    /\ \A k \in 1..(Len(sorted.result) - 1) :
         CompareVersions(sorted.result[k].Version, sorted.result[k + 1].Version) <= 0

\* 2.0, 1.0.10, 1.0.2 come back as 1.0.2, 1.0.10, 2.0
C26_Witness ==
  /\ sorted.called
  /\ sorted.sortBy = "version"
  /\ [k \in 1..Len(sorted.input) |-> sorted.input[k].Version] =
       <<<<"2", ".", "0">>, <<"1", ".", "0", ".", "1", "0">>, <<"1", ".", "0", ".", "2">>>>
  /\ [k \in 1..Len(sorted.result) |-> sorted.result[k].Version] =
       <<<<"1", ".", "0", ".", "2">>, <<"1", ".", "0", ".", "1", "0">>, <<"2", ".", "0">>>>

C27_WitnessNonNumeric ==
  /\ compared.called
  /\ compared.a = <<"i", "n", "v", "a", "l", "i", "d">>
  /\ compared.b = <<"1", ".", "0", ".", "0">>
  /\ compared.result < 0

\* C28: with the field "created" the result is the input from the newest to
\* the oldest: the parsed time of every document is at least that of the next.
C28_CreatedDescending ==
  (sorted.called /\ sorted.sortBy = "created") =>
    /\ Reordering(sorted.input, sorted.result)
    /\ \A k \in 1..(Len(sorted.result) - 1) :
         GetTime(sorted.result[k].CreatedAt) >= GetTime(sorted.result[k + 1].CreatedAt)

\* three documents of three different times given oldest first
C28_Witness ==
  /\ sorted.called
  /\ sorted.sortBy = "created"
  /\ Len(sorted.input) = 3
  /\ \A k \in 1..2 :
       /\ GetTime(sorted.input[k].CreatedAt) < GetTime(sorted.input[k + 1].CreatedAt)
       /\ GetTime(sorted.result[k].CreatedAt) > GetTime(sorted.result[k + 1].CreatedAt)

\* C29: with the field "name" the result is the input in ascending order of
\* the titles without regard to case.
C29_NameAscendingIgnoringCase ==
  (sorted.called /\ sorted.sortBy = "name") =>
    /\ Reordering(sorted.input, sorted.result)
    /\ \A k \in 1..(Len(sorted.result) - 1) :
         FoldLeq(sorted.result[k].Title, sorted.result[k + 1].Title)

\* zebra, BETA, Alpha come back as Alpha, BETA, zebra
C29_Witness ==
  /\ sorted.called
  /\ sorted.sortBy = "name"
  /\ Len(sorted.input) = 3
  /\ OfTitle(sorted.input[1], <<"z", "e", "b", "r", "a">>)
  /\ OfTitle(sorted.input[2], <<"B", "E", "T", "A">>)
  /\ OfTitle(sorted.input[3], <<"A", "l", "p", "h", "a">>)
  /\ OfTitle(sorted.result[1], <<"A", "l", "p", "h", "a">>)
  /\ OfTitle(sorted.result[2], <<"B", "E", "T", "A">>)
  /\ OfTitle(sorted.result[3], <<"z", "e", "b", "r", "a">>)

\* C30: sorting the result of a sort again by the same field gives the same
\* order, for every field.
C30_SortIsIdempotent ==
  (sorted.called /\ sorted.onResultOf = sorted.sortBy) =>
    sorted.result = sorted.input

\* a second sort by name of a result in which two titles differ in case only
C30_Witness ==
  /\ sorted.called
  /\ sorted.onResultOf = "name"
  /\ sorted.sortBy = "name"
  /\ sorted.result = sorted.input
  /\ \E k \in 1..(Len(sorted.result) - 1) :
       /\ sorted.result[k].Title # sorted.result[k + 1].Title
       /\ Fold(sorted.result[k].Title) = Fold(sorted.result[k + 1].Title)

\* how often a document occurs in an array
Occurrences(seq, d) == Cardinality({k \in 1..Len(seq) : seq[k] = d})

\* C39: for every field the array sortDocuments returns is a permutation of
\* the array it was given: the same length, every document as often as in
\* the input, none added, dropped or duplicated.
C39_SortReturnsPermutation ==
  sorted.called =>
    /\ Len(sorted.result) = Len(sorted.input)
    /\ \A d \in SortDocs : Occurrences(sorted.result, d) = Occurrences(sorted.input, d)

\* a sort by version that moved documents, two of which compare equal
C39_Witness ==
  /\ sorted.called
  /\ sorted.sortBy = "version"
  /\ Len(sorted.input) = MaxSortLen
  /\ sorted.result # sorted.input
  /\ \E i, j \in 1..Len(sorted.input) :
       /\ i # j
       /\ sorted.input[i].Version # sorted.input[j].Version
       /\ ExpectedCompare(sorted.input[i].Version, sorted.input[j].Version) = 0

Sign(n) == IF n < 0 THEN 0 - 1 ELSE IF n > 0 THEN 1 ELSE 0

\* C40: compareVersions is a total preorder: a version compares equal to
\* itself, swapping the arguments swaps the sign, and a <= b and b <= c give
\* a <= c; versions that differ by trailing zero segments only compare equal.
C40_CompareVersionsIsPreorder ==
  compared.called =>
    /\ compared.a = compared.b => compared.result = 0
    /\ Sign(compared.result) = 0 - Sign(CompareVersions(compared.b, compared.a))
    /\ \A c \in Versions :
         (compared.result <= 0 /\ CompareVersions(compared.b, c) <= 0) =>
           CompareVersions(compared.a, c) <= 0
    /\ ({compared.a, compared.b} \subseteq {<<"1", ".", "0">>, <<"1", ".", "0", ".", "0">>}) =>
         compared.result = 0

\* 1.0 against 1.0.0
C40_Witness ==
  /\ compared.called
  /\ compared.a = <<"1", ".", "0">>
  /\ compared.b = <<"1", ".", "0", ".", "0">>
  /\ compared.result = 0

\* a chain of three different versions: 1.0.2 <= 1.0.10 and 1.0.10 <= 2.0
C40_WitnessChain ==
  /\ compared.called
  /\ compared.a = <<"1", ".", "0", ".", "2">>
  /\ compared.b = <<"1", ".", "0", ".", "1", "0">>
  /\ compared.result < 0
  /\ CompareVersions(compared.b, <<"2", ".", "0">>) < 0
  /\ CompareVersions(compared.a, <<"2", ".", "0">>) < 0

TypeOK ==
  /\ usedCache \in BOOLEAN
  /\ storage.kind \in {"absent", "empty", "malformed", "array"}
  /\ awaitingFetch \in 0..MaxCalls
  /\ awaitingJson \in 0..MaxCalls
  /\ awaitingFetch + awaitingJson <= MaxCalls
  /\ lastFetch \in {"none", "success", "fallback", "rejected"}
  /\ live \subseteq UserIDs
====
